---- MODULE Spec2Model ----
(***************************************************************************)
(* Intellectory: inventory and returnable-bin tracking.                    *)
(*                                                                         *)
(* The model has two parts, each with its own specification:               *)
(*   Spec       the bin ledger of components/Dashboard.tsx and             *)
(*              components/BinStockPage.tsx: the remote tables             *)
(*              bin_parties, bin_balances and bin_history_log, the local   *)
(*              projection binStockData, and the confirmation dialog;      *)
(*   StockSpec  the stock side of components/Dashboard.tsx: stock_items,   *)
(*              suppliers, credit_transactions, the price-mismatch dialog  *)
(*              and the interpreted ADD command.                           *)
(* A handler is one action: its store calls run in the order of the        *)
(* source, and a failing call takes the handler's early return.  At most   *)
(* one store call fails per invocation (the parameter `fail`).  The notes  *)
(* editor is asynchronous in the source (a 1 s timer, then a reload after  *)
(* an insert) and is modelled in three steps.                              *)
(*                                                                         *)
(* Store semantics assumed of the hosted database: an upsert on            *)
(* bin_balances is keyed by (party_id, bin_type_id); deleting a party      *)
(* cascades to its balances; ids are never reused while referenced.        *)
(***************************************************************************)
EXTENDS Integers, Sequences, FiniteSets, TLC

(* ------------------------------ bounds -------------------------------- *)
\* rows bin_parties may hold at once
MaxParties == 2
\* entries bin_history_log may hold at once
MaxLog == 2
\* store calls that fail in one run
MaxFaults == 1
\* entries activity_log may hold at once
MaxActivity == 2
\* |balance| explored for one (party, bin)
MaxBalance == 2

(* --------------------------- program constants ------------------------ *)
\* .limit(200) on the history read of fetchBinData
HistoryLimit == 200

DefaultNotes == "Add your notes here..."

\* prices are in thousandths of a currency unit; the tolerance 0.001 of the price
\* comparison in handleAddItem
PriceTolerance == 1

(* ------------------------------ strings ------------------------------- *)
\* String.prototype.toLowerCase over the words the model uses
ToLowerCase(s) ==
    CASE s = "Ziyard"       -> "ziyard"
      [] s = "Widget"       -> "widget"
      [] s = "Gadget"       -> "gadget"
      [] s = "ALG"          -> "alg"
      [] s = "Chep Plastic" -> "chep plastic"
      [] s = "Send"         -> "send"
      [] s = "TO"           -> "to"
      [] OTHER              -> s

\* type.charAt(0).toUpperCase() + type.slice(1)
Capitalize(s) ==
    CASE s = "sent"     -> "Sent"
      [] s = "received" -> "Received"
      [] s = "returned" -> "Returned"
      [] s = "send"     -> "Send"
      [] s = "receive"  -> "Receive"
      [] s = "return"   -> "Return"
      [] OTHER          -> s

\* the words of a text joined by single spaces
RECURSIVE JoinTokens(_)
JoinTokens(ts) ==
    IF ts = <<>> THEN ""
    ELSE IF Len(ts) = 1 THEN ts[1]
    ELSE ts[1] \o " " \o JoinTokens(Tail(ts))

(* ------------------------------ domains ------------------------------- *)
\* bin_types of the team (fixed while the ledger runs)
BinTypes ==
    << [id |-> "b1", name |-> "ALG"],
       [id |-> "b2", name |-> "Chep Plastic"] >>

BinIds == {BinTypes[i].id : i \in 1..Len(BinTypes)}

\* party names as typed; "Ziyard" and "ziyard" differ in case only
PartyNames == {"Ziyard", "ziyard"}

PartyIds == 1..(MaxParties + 1)
LogIds == 1..(MaxLog + 1)

MovementTypes == {"sent", "received", "returned"}
Quantities == {1, 2}
EditValues == {0, 1, 2}
NoteTexts == {"", "n1"}

\* a nullable value (an SQL integer, a session, hasTeam) is the set of its
\* value, null the empty set
Null == {}
NotNull(v) == {v}
ValueOf(x) == CHOOSE v \in x : TRUE

NoRequest == [kind |-> "none"]
NoRetry == [pc |-> "idle"]
NoTimer == [active |-> FALSE]
NoCell == [rendered |-> FALSE]
NoOwnedBins == [b \in {} |-> 0]
NoDetails == [kind |-> "none"]

(* ------------------------------- state -------------------------------- *)
VARIABLES
    \* remote tables, in insertion order
    bin_parties,          \* sequence of [id, name]
    bin_balances,         \* function <<party_id, bin_type_id>> -> balance
    bin_history_log,      \* sequence of [id, type, change, details], oldest first
    bin_status_counts,    \* function <<status_name, bin_type_id>> -> quantity
    daily_bin_totals,     \* sequence of [bin_type_id, date, opening_total, now_total]
    our_bins,             \* function bin_type_id -> quantity
    daily_rollover_log,   \* sequence of [rollover_date, previous_date]
    variable_conflict,    \* the server's plpgsql.variable_conflict setting
    \* Dashboard state
    binStockData,         \* [binTypes, statuses, owedToUs, weOwe, history, notes]
    confirmationRequest,  \* the pending dialog with what its onConfirm closes over
    infoModalContent,     \* message shown to the user, "" when none
    \* BinStockPage: the mixed-category cell rendered last, with its props
    mixedCell,
    \* BinStockPage notes editor
    notesTimer,           \* the armed setTimeout with what its callback closes over
    reloadPending,        \* handleUpdateNotes awaits fetchBinData after its insert
    \* store calls that have failed so far
    faults,
    \* history variable: per (party name in lower case, bin) the signed sum of
    \* the movements recorded on it, while only error-free movements touched it
    \* since it last had no balance row
    ledger,
    \* remote tables of the stock side, in insertion order
    stock_items,          \* sequence of [id, name, price, added_today,
                          \* opening_stock, packed, lost]
    suppliersTable,       \* table suppliers: sequence of [id, name, balance]
    credit_transactions,  \* sequence of [supplier_id, stock_item_name, quantity, total_value]
    activity_log,         \* sequence of [item_name, quantity, via]
    \* Dashboard state of the stock side
    stockItems,           \* local copy of stock_items
    suppliers,            \* local copy of the suppliers table
    modal,                \* the open modal, "none" when none
    priceConfirmation,    \* [item, newItemData] of the price-mismatch dialog
    \* history variable: the handler that ran last on the stock side, with the
    \* response an interpreted command received, or the rollover invoked last
    \* with what it read
    lastOp,
    \* supabaseClient: the build's environment
    supabaseUrl,          \* VITE_SUPABASE_URL, "" when absent
    supabaseAnonKey,      \* VITE_SUPABASE_ANON_KEY, "" when absent
    \* App state
    session,              \* null or the signed-in user's id
    loading,
    authView,             \* "welcome" or "auth"
    hasTeam,              \* null, true or false
    initTimeout,          \* the 5 s safety timer: "unset", "armed", "fired", "cleared"
    authInit,             \* where the effect's async function stands
    subscription,         \* TRUE once onAuthStateChange has registered the listener
    teamChecks,           \* user ids of the checkTeam calls the listener awaits
    \* handlers in flight, each with what it closes over and where it stands
    movements,            \* handleBinMovement calls awaiting a store answer
    stockUpdates,         \* handleStockUpdate calls awaiting their update
    retry,                \* the runWithRetry call: [responses, i, calls, delays,
                          \* lastErr, result, pc]
    authEvent             \* the event the auth listener was called with last

\* what the handlers of the movement ledger never touch
appVars == << supabaseUrl, supabaseAnonKey, session, loading, authView, hasTeam,
              initTimeout, authInit, subscription, teamChecks >>

\* what only the step-by-step handlers and the auth listener touch
flightVars == << movements, stockUpdates, retry, authEvent >>

sideVars == << bin_status_counts, mixedCell, daily_bin_totals, our_bins,
               daily_rollover_log, variable_conflict, appVars, flightVars >>

binVars == << bin_parties, bin_balances, bin_history_log, binStockData,
              notesTimer, reloadPending, ledger, sideVars >>

stockVars == << stock_items, suppliersTable, credit_transactions, activity_log,
                stockItems, suppliers, modal, priceConfirmation, lastOp >>

vars == << binVars, stockVars, confirmationRequest, infoModalContent, faults >>

\* what is neither of the App nor in flight
pageVars ==
    << bin_parties, bin_balances, bin_history_log, binStockData, notesTimer,
       reloadPending, ledger, bin_status_counts, mixedCell, daily_bin_totals,
       our_bins, daily_rollover_log, variable_conflict, confirmationRequest,
       infoModalContent, faults >>

(* --------------------------- table helpers ---------------------------- *)
Range(s) == {s[i] : i \in 1..Len(s)}

RECURSIVE SumSet(_, _)
SumSet(f, S) ==
    IF S = {} THEN 0
    ELSE LET x == CHOOSE y \in S : TRUE IN f[x] + SumSet(f, S \ {x})

\* Array.prototype.find: index of the first element satisfying Test, 0 when none
FindIndex(s, Test(_)) ==
    IF \E i \in 1..Len(s) : Test(s[i])
    THEN CHOOSE i \in 1..Len(s) : Test(s[i]) /\ \A j \in 1..(i - 1) : ~Test(s[j])
    ELSE 0

Reverse(s) == [i \in 1..Len(s) |-> s[Len(s) + 1 - i]]

LastN(s, n) == IF Len(s) <= n THEN s ELSE SubSeq(s, Len(s) - n + 1, Len(s))

\* a balance row's value, 0 when the row is absent (currentBalanceData?.balance || 0)
BalanceOf(bal, pid, bid) ==
    IF <<pid, bid>> \in DOMAIN bal THEN bal[<<pid, bid>>] ELSE 0

\* upsert({party_id, bin_type_id, balance})
UpsertBalance(bal, pid, bid, v) ==
    [k \in (DOMAIN bal) \cup {<<pid, bid>>} |->
        IF k = <<pid, bid>> THEN v ELSE bal[k]]

\* delete of a party with the foreign-key cascade to its balances
DeletePartyRows(parties, pid) == SelectSeq(parties, LAMBDA p : p.id # pid)
DeleteBalancesOf(bal, pid) ==
    [k \in {k \in DOMAIN bal : k[1] # pid} |-> bal[k]]

EmptyBalances == [k \in {} |-> 0]

\* a fresh uuid: the least id neither stored nor still referenced
FreshPartyId(parties) ==
    LET used == {p.id : p \in Range(parties)}
    IN  IF PartyIds \ used = {} THEN 0
        ELSE CHOOSE i \in PartyIds \ used : \A j \in PartyIds \ used : i <= j

FreshLogId(log) ==
    LET held == IF notesTimer.active THEN {notesTimer.existingNote} ELSE {}
        used == {e.id : e \in Range(log)} \cup held
    IN  IF LogIds \ used = {} THEN 0
        ELSE CHOOSE i \in LogIds \ used : \A j \in LogIds \ used : i <= j

(* --------------------------- fetchBinData ----------------------------- *)
\* lines 186-195: the positive balances of a party
OwedBins(bal, pid) ==
    [b \in {b \in BinIds : BalanceOf(bal, pid, b) > 0} |-> bal[<<pid, b>>]]

\* lines 192-194: the negative balances of a party, stored as positive numbers
WeOweBins(bal, pid) ==
    [b \in {b \in BinIds : BalanceOf(bal, pid, b) < 0} |-> 0 - bal[<<pid, b>>]]

\* lines 181-204
OwedToUsList(parties, bal) ==
    SelectSeq([i \in 1..Len(parties) |->
                  [id |-> parties[i].id, name |-> parties[i].name,
                   bins |-> OwedBins(bal, parties[i].id)]],
              LAMBDA p : DOMAIN p.bins # {})

WeOweList(parties, bal) ==
    SelectSeq([i \in 1..Len(parties) |->
                  [id |-> parties[i].id, name |-> parties[i].name,
                   bins |-> WeOweBins(bal, parties[i].id)]],
              LAMBDA p : DOMAIN p.bins # {})

\* the status names of bin_status_counts and of BinStockData['statuses']
StatusNames == {"total", "full", "inFridge", "broken", "dump"}

\* a status table without rows
NoStatusRows == [k \in {} |-> 0]

\* lines 166-174: per status the stored quantities by bin type
StoredStatuses(counts) ==
    [s \in StatusNames |->
        [b \in {k[2] : k \in {k \in DOMAIN counts : k[1] = s}} |-> counts[<<s, b>>]]]

\* (statuses.full[bt.id] || 0)
CountOr0(bins, b) == IF b \in DOMAIN bins THEN bins[b] ELSE 0

StatusesOfStoredTotal(counts) == StoredStatuses(counts)

\* lines 176-179: total of every bin type of the team set to the sum of its
\* four counts, over whatever the 'total' rows had put there
StatusesOf(counts) ==
    LET stored == StoredStatuses(counts)
    IN  [stored EXCEPT !["total"] =
            [b \in (DOMAIN stored["total"]) \cup BinIds |->
                IF b \in BinIds
                THEN CountOr0(stored["full"], b) + CountOr0(stored["inFridge"], b)
                         + CountOr0(stored["broken"], b) + CountOr0(stored["dump"], b)
                ELSE stored["total"][b]]]

\* constants.ts lines 93-99
EmptyStatuses == [s \in StatusNames |-> NoStatusRows]

\* line 145 and lines 206-208: the newest HistoryLimit entries, newest first
HistoryOf(log) == Reverse(LastN(log, HistoryLimit))

\* line 210: history.find(h => h.type === 'note')?.change || default
NotesOf(history) ==
    LET i == FindIndex(history, LAMBDA h : h.type = "note")
    IN  IF i = 0 \/ history[i].change = "" THEN DefaultNotes ELSE history[i].change

\* constants.ts EMPTY_BIN_STOCK_DATA
EMPTY_BIN_STOCK_DATA ==
    [binTypes |-> <<>>, statuses |-> EmptyStatuses, owedToUs |-> <<>>,
     weOwe |-> <<>>, history |-> <<>>, notes |-> ""]

\* fetchBinData: the state it sets from the tables it read; EMPTY when a read failed
FetchBinDataFrom(counts, parties, bal, log, failed) ==
    IF failed THEN EMPTY_BIN_STOCK_DATA
    ELSE [binTypes |-> BinTypes,
          statuses |-> StatusesOf(counts),
          owedToUs |-> OwedToUsList(parties, bal),
          weOwe    |-> WeOweList(parties, bal),
          history  |-> HistoryOf(log),
          notes    |-> NotesOf(HistoryOf(log))]

\* fetchBinData after a handler that left bin_status_counts alone
FetchBinData(parties, bal, log, failed) ==
    FetchBinDataFrom(bin_status_counts, parties, bal, log, failed)

(* ------------------------- history variable --------------------------- *)
LedgerNames == {ToLowerCase(n) : n \in PartyNames}

CleanLedger == [k \in LedgerNames \X BinIds |-> [clean |-> TRUE, sum |-> 0]]

\* the signed delta the ledger convention gives a movement
SignedDelta(type, quantity) ==
    IF type = "sent" THEN quantity
    ELSE IF type \in {"received", "returned"} THEN 0 - quantity
    ELSE 0

Taint(l, name, bid) ==
    [l EXCEPT ![<<ToLowerCase(name), bid>>] = [clean |-> FALSE, sum |-> 0]]

Credit(l, name, bid, d) ==
    IF l[<<ToLowerCase(name), bid>>].clean
    THEN [l EXCEPT ![<<ToLowerCase(name), bid>>].sum = @ + d]
    ELSE l

\* a party row was deleted: the name starts afresh when no row bears it any more
Forget(l, name, parties) ==
    [k \in DOMAIN l |->
        IF k[1] # ToLowerCase(name) THEN l[k]
        ELSE IF \E p \in Range(parties) : ToLowerCase(p.name) = k[1]
             THEN [clean |-> FALSE, sum |-> 0]
             ELSE [clean |-> TRUE, sum |-> 0]]

\* the name of a stored party row, "" when the row is gone
NameOf(parties, pid) ==
    LET i == FindIndex(parties, LAMBDA p : p.id = pid)
    IN  IF i = 0 THEN "" ELSE parties[i].name

\* every store call of the handler succeeds, or one fails within the budget
Fault(fail) ==
    IF fail = "none" THEN UNCHANGED faults
    ELSE faults < MaxFaults /\ faults' = faults + 1

(* ------------------------------- Init --------------------------------- *)
NoPriceConfirmation == [open |-> FALSE]

\* a team without stock items, suppliers or transactions, after initialize()
StockInit ==
    /\ stock_items = <<>>
    /\ suppliersTable = <<>>
    /\ credit_transactions = <<>>
    /\ activity_log = <<>>
    /\ stockItems = <<>>
    /\ suppliers = <<>>
    /\ modal = "none"
    /\ priceConfirmation = NoPriceConfirmation
    /\ lastOp = [op |-> "none"]

\* a team with its bin types and no party, balance or history yet, after
\* Dashboard's initialize() has run fetchBinData
BinInitWith(counts) ==
    /\ bin_parties = <<>>
    /\ bin_balances = EmptyBalances
    /\ bin_history_log = <<>>
    /\ bin_status_counts = counts
    /\ binStockData = FetchBinDataFrom(counts, <<>>, EmptyBalances, <<>>, FALSE)
    /\ mixedCell = NoCell
    /\ confirmationRequest = NoRequest
    /\ infoModalContent = ""
    /\ notesTimer = NoTimer
    /\ reloadPending = FALSE
    /\ faults = 0
    /\ ledger = CleanLedger

\* the tables of the daily rollover and the server's plpgsql.variable_conflict
\* (the deployment guide creates the tables empty; the setting's default is
\* error)
RolloverInitWith(totals, owned, setting) ==
    /\ daily_bin_totals = totals
    /\ our_bins = owned
    /\ daily_rollover_log = <<>>
    /\ variable_conflict = setting

\* no handler is in flight
NoneInFlight ==
    movements = <<>> /\ stockUpdates = <<>> /\ retry = NoRetry /\ authEvent = "none"

BinInit ==
    /\ BinInitWith(NoStatusRows)
    /\ RolloverInitWith(<<>>, NoOwnedBins, "error")
    /\ NoneInFlight

\* App once it renders the Dashboard: configured, signed in, with a team
AppSignedIn ==
    /\ supabaseUrl = "https://project.supabase.co"
    /\ supabaseAnonKey = "anon-key"
    /\ session = NotNull("u1")
    /\ loading = FALSE
    /\ authView = "welcome"
    /\ hasTeam = NotNull(TRUE)
    /\ initTimeout = "cleared"
    /\ authInit = "done"
    /\ subscription = TRUE
    /\ teamChecks = <<>>

\* no dialog covers the page (the dialogs are full-screen overlays)
Idle == confirmationRequest.kind = "none" /\ infoModalContent = "" /\ modal = "none"

(* ------------------------- handleBinMovement -------------------------- *)
\* line 751: the first party of owedToUs ++ weOwe with that name, ignoring case
FindPartyByName(data, partyName) ==
    LET all == data.owedToUs \o data.weOwe
        i == FindIndex(all, LAMBDA p : ToLowerCase(p.name) = ToLowerCase(partyName))
    IN  IF i = 0 THEN 0 ELSE all[i].id

NewBalanceReturnedAdds(currentBalance, type, quantity) ==
    IF type = "sent" THEN currentBalance + quantity
    ELSE IF type = "received" THEN currentBalance - quantity
    ELSE IF type = "returned" THEN currentBalance + quantity
    ELSE currentBalance

\* lines 767-772
NewBalance(currentBalance, type, quantity) ==
    IF type = "sent" THEN currentBalance + quantity
    ELSE IF type = "received" THEN currentBalance - quantity
    ELSE IF type = "returned" THEN currentBalance - quantity
    ELSE currentBalance

\* line 777
BinNameOf(data, binId) ==
    LET i == FindIndex(data.binTypes, LAMBDA b : b.id = binId)
    IN  IF i = 0 THEN "Unknown Bin" ELSE data.binTypes[i].name

\* line 778 (the form passes '' for contents and transporter, the command none)
MovementDescription(type, quantity, binName, partyName) ==
    Capitalize(type) \o " " \o ToString(quantity) \o " " \o binName \o " "
        \o (IF type = "sent" THEN "to" ELSE "from") \o " " \o partyName \o "."

\* lines 780-785
MovementEntry(id, data, d) ==
    [id |-> id, type |-> "movement",
     change |-> MovementDescription(d.type, d.quantity, BinNameOf(data, d.binId),
                                    d.partyName),
     details |-> [movementType |-> d.type, quantity |-> d.quantity,
                  binName |-> BinNameOf(data, d.binId), partyName |-> d.partyName]]

MovementFaults == {"none", "party", "read", "upsert", "log", "fetch"}

\* the party row a movement with these details reads and writes
MovementPartyId(data, d) ==
    IF FindPartyByName(data, d.partyName) # 0
    THEN FindPartyByName(data, d.partyName)
    ELSE FreshPartyId(bin_parties)

\* lines 746-790; data is the binStockData the handler closes over
HandleBinMovement(data, d, fail) ==
    LET create  == FindPartyByName(data, d.partyName) = 0
        pid     == MovementPartyId(data, d)
        parties1 == IF create
                    THEN Append(bin_parties, [id |-> pid, name |-> d.partyName])
                    ELSE bin_parties
        stored  == \E p \in Range(parties1) : p.id = pid
        currentBalance == BalanceOf(bin_balances, pid, d.binId)
        newBalance == NewBalance(currentBalance, d.type, d.quantity)
        bal1    == UpsertBalance(bin_balances, pid, d.binId, newBalance)
        log1    == IF fail = "log" THEN bin_history_log
                   ELSE Append(bin_history_log,
                               MovementEntry(FreshLogId(bin_history_log), data, d))
    IN  /\ Fault(fail)
        /\ create => (pid # 0 /\ Len(bin_parties) < MaxParties)
        /\ newBalance \in (0 - MaxBalance)..MaxBalance
        /\ Len(bin_history_log) < MaxLog
        /\ fail = "party" => create
        /\ IF fail = "party"
           THEN \* line 756
                UNCHANGED << bin_parties, bin_balances, bin_history_log,
                             binStockData, ledger >>
           ELSE IF fail = "read" \/ fail = "upsert" \/ ~stored
           THEN \* lines 763-765 and 775
                /\ bin_parties' = parties1
                /\ ledger' = Taint(ledger, d.partyName, d.binId)
                /\ UNCHANGED << bin_balances, bin_history_log, binStockData >>
           ELSE /\ bin_parties' = parties1
                /\ bin_balances' = bal1
                /\ bin_history_log' = log1
                /\ binStockData' = FetchBinData(parties1, bal1, log1, fail = "fetch")
                /\ ledger' = IF fail = "none"
                             THEN Credit(ledger, d.partyName, d.binId,
                                         SignedDelta(d.type, d.quantity))
                             ELSE Taint(ledger, d.partyName, d.binId)

(* -------------------------- handleDirectEdit -------------------------- *)
EditFaults == {"none", "upsert", "log", "fetch"}

\* line 729
OldValue(data, partyId, binId) ==
    LET all == data.owedToUs \o data.weOwe
        i == FindIndex(all, LAMBDA p : p.id = partyId)
    IN  IF i # 0 /\ binId \in DOMAIN all[i].bins THEN all[i].bins[binId] ELSE 0

FinalValueUnsigned(data, partyId, newValue) == newValue

\* lines 730-731
FinalValue(data, partyId, newValue) ==
    IF \E p \in Range(data.weOwe) : p.id = partyId THEN 0 - newValue ELSE newValue

\* lines 736-740
EditEntry(id, data, partyId, binId, newValue) ==
    LET all == data.owedToUs \o data.weOwe
        i == FindIndex(all, LAMBDA p : p.id = partyId)
    IN  [id |-> id, type |-> "edit",
         change |-> "Manually changed " \o BinNameOf(data, binId) \o " for "
                    \o all[i].name \o " from "
                    \o ToString(OldValue(data, partyId, binId)) \o " to "
                    \o ToString(newValue) \o ".",
         details |-> NoDetails]

\* lines 722-744; data is the binStockData the handler closes over
HandleDirectEdit(data, partyId, binId, newValue, fail) ==
    LET all    == data.owedToUs \o data.weOwe
        known  == /\ \E p \in Range(all) : p.id = partyId
                  /\ \E b \in Range(data.binTypes) : b.id = binId
        stored == \E p \in Range(bin_parties) : p.id = partyId
        bal1   == UpsertBalance(bin_balances, partyId, binId,
                                FinalValue(data, partyId, newValue))
        log1   == IF fail = "log" THEN bin_history_log
                  ELSE Append(bin_history_log,
                              EditEntry(FreshLogId(bin_history_log), data, partyId,
                                        binId, newValue))
    IN  /\ Fault(fail)
        /\ Len(bin_history_log) < MaxLog
        /\ IF ~known
           THEN \* line 727
                UNCHANGED << bin_balances, bin_history_log, binStockData, ledger >>
           ELSE IF fail = "upsert" \/ ~stored
           THEN \* line 734
                UNCHANGED << bin_balances, bin_history_log, binStockData, ledger >>
           ELSE /\ bin_balances' = bal1
                /\ bin_history_log' = log1
                /\ binStockData' = FetchBinData(bin_parties, bal1, log1, fail = "fetch")
                /\ ledger' = Taint(ledger, NameOf(bin_parties, partyId), binId)
        /\ UNCHANGED bin_parties

(* ------------------------- confirmation dialog ------------------------ *)
\* BinStockPage lines 163-168: the displayed parties, one per exact name
AllParties(data) ==
    LET parties == data.owedToUs \o data.weOwe
    IN  {parties[i] : i \in {i \in 1..Len(parties) :
                                \A j \in 1..(i - 1) : parties[j].name # parties[i].name}}

\* the rows of the two party tables
PartyRows(data) == Range(data.owedToUs) \cup Range(data.weOwe)

\* BinStockPage lines 248-288: the form is checked and the request opened; its
\* onConfirm closes over the handleBinMovement of this render
HandleLogMovement(type, quantity, binId, partyName) ==
    /\ Idle
    /\ quantity # 0 /\ binId # "" /\ partyName # ""
    /\ \E b \in Range(binStockData.binTypes) : b.id = binId
    /\ confirmationRequest' =
           [kind |-> "movement",
            details |-> [type |-> type, quantity |-> quantity, binId |-> binId,
                         partyName |-> partyName],
            data |-> binStockData]
    /\ UNCHANGED << bin_parties, bin_balances, bin_history_log, binStockData,
                    infoModalContent, notesTimer, reloadPending, faults, ledger >>
    /\ UNCHANGED << stockVars, sideVars >>

\* Confirm on a movement request (Dashboard line 1192): onConfirm runs
\* handleBinMovement and leaves the request open
ConfirmMovement(fail) ==
    /\ confirmationRequest.kind = "movement"
    /\ HandleBinMovement(confirmationRequest.data, confirmationRequest.details, fail)
    /\ UNCHANGED << confirmationRequest, infoModalContent, notesTimer, reloadPending >>
    /\ UNCHANGED << stockVars, sideVars >>

HandlePartyBinChangeUnconfirmed(partyId, binId, newValue) ==
    /\ Idle
    /\ \E p \in AllParties(binStockData) : p.id = partyId
    /\ HandleDirectEdit(binStockData, partyId, binId, newValue, "none")
    /\ UNCHANGED << confirmationRequest, infoModalContent, notesTimer, reloadPending >>
    /\ UNCHANGED << stockVars, sideVars >>

\* BinStockPage lines 295-314, called by a cell of a party row whose entered
\* value differs from the displayed one (EditableBinCell, lines 95-113)
HandlePartyBinChange(partyId, binId, newValue) ==
    /\ Idle
    /\ \E r \in PartyRows(binStockData) :
           /\ r.id = partyId
           /\ binId \in DOMAIN r.bins => r.bins[binId] # newValue
    /\ \E b \in Range(binStockData.binTypes) : b.id = binId
    /\ IF \E p \in AllParties(binStockData) : p.id = partyId
       THEN confirmationRequest' =
                [kind |-> "edit", partyId |-> partyId, binId |-> binId,
                 newValue |-> newValue, data |-> binStockData]
       ELSE UNCHANGED confirmationRequest
    /\ UNCHANGED << bin_parties, bin_balances, bin_history_log, binStockData,
                    infoModalContent, notesTimer, reloadPending, faults, ledger >>
    /\ UNCHANGED << stockVars, sideVars >>

\* Confirm on an edit request: onConfirm runs handleDirectEdit and leaves the
\* request open
ConfirmEdit(fail) ==
    /\ confirmationRequest.kind = "edit"
    /\ HandleDirectEdit(confirmationRequest.data, confirmationRequest.partyId,
                        confirmationRequest.binId, confirmationRequest.newValue, fail)
    /\ UNCHANGED << confirmationRequest, infoModalContent, notesTimer, reloadPending >>
    /\ UNCHANGED << stockVars, sideVars >>

\* Dashboard lines 689-700, first half: the request is opened
HandleRemoveParty(partyId) ==
    /\ Idle
    /\ \E r \in PartyRows(binStockData) : r.id = partyId
    /\ confirmationRequest' = [kind |-> "removeParty", partyId |-> partyId]
    /\ UNCHANGED << bin_parties, bin_balances, bin_history_log, binStockData,
                    infoModalContent, notesTimer, reloadPending, faults, ledger >>
    /\ UNCHANGED << stockVars, sideVars >>

RemoveFaults == {"none", "delete", "fetch"}

\* Dashboard lines 693-697: onConfirm of the removal request
ConfirmRemoveParty(fail) ==
    LET pid == confirmationRequest.partyId
        parties1 == DeletePartyRows(bin_parties, pid)
        bal1 == DeleteBalancesOf(bin_balances, pid)
    IN  /\ confirmationRequest.kind = "removeParty"
        /\ Fault(fail)
        /\ IF fail = "delete"
           THEN UNCHANGED << bin_parties, bin_balances, binStockData, ledger >>
           ELSE /\ bin_parties' = parties1
                /\ bin_balances' = bal1
                /\ binStockData' = FetchBinData(parties1, bal1, bin_history_log,
                                                fail = "fetch")
                /\ ledger' = IF NameOf(bin_parties, pid) = "" THEN ledger
                             ELSE Forget(ledger, NameOf(bin_parties, pid), parties1)
        /\ confirmationRequest' = NoRequest
        /\ UNCHANGED << bin_history_log, infoModalContent, notesTimer, reloadPending >>
        /\ UNCHANGED << stockVars, sideVars >>

\* Dashboard lines 1184 and 1191: the overlay or Cancel
CancelRequest ==
    /\ confirmationRequest.kind # "none"
    /\ confirmationRequest' = NoRequest
    /\ UNCHANGED << binVars, stockVars, infoModalContent, faults >>

(* ----------------------------- handleAddParty ------------------------- *)
AddPartyFaults == {"none", "insert", "fetch"}

\* BinStockPage lines 198-203 and Dashboard lines 683-688
HandleAddParty(partyName, fail) ==
    LET parties1 == Append(bin_parties,
                           [id |-> FreshPartyId(bin_parties), name |-> partyName])
    IN  /\ Idle
        /\ partyName # ""
        /\ Fault(fail)
        /\ Len(bin_parties) < MaxParties /\ FreshPartyId(bin_parties) # 0
        /\ IF fail = "insert"
           THEN UNCHANGED << bin_parties, binStockData >>
           ELSE /\ bin_parties' = parties1
                /\ binStockData' = FetchBinData(parties1, bin_balances, bin_history_log,
                                                fail = "fetch")
        /\ UNCHANGED << bin_balances, bin_history_log, confirmationRequest,
                        infoModalContent, notesTimer, reloadPending, ledger >>
        /\ UNCHANGED << stockVars, sideVars >>

(* -------------------------- handleBinAICommand ------------------------ *)
\* a command is its words in order; the pattern of line 919 separates its
\* groups by single spaces
IsVerb(t) == ToLowerCase(t) \in {"send", "receive", "return"}
IsDigits(t) == t \in {"0", "1", "2", "3"}
IsPreposition(t) == ToLowerCase(t) \in {"to", "from"}

\* parseInt(quantity, 10)
ParseInt(t) ==
    CASE t = "0" -> 0
      [] t = "1" -> 1
      [] t = "2" -> 2
      [] t = "3" -> 3

\* the lazy group (.+?): the end of the shortest bin name starting at word
\* `from` that is followed by a preposition and at least one more word, 0 when none
RECURSIVE ShortestBinName(_, _)
ShortestBinName(cmd, k) ==
    IF k + 2 > Len(cmd) THEN 0
    ELSE IF IsPreposition(cmd[k + 1]) THEN k
    ELSE ShortestBinName(cmd, k + 1)

\* the match that starts at word i or, failing that, further right
RECURSIVE MatchFrom(_, _)
MatchFrom(cmd, i) ==
    IF i + 4 > Len(cmd) THEN [matched |-> FALSE]
    ELSE IF IsVerb(cmd[i]) /\ IsDigits(cmd[i + 1]) /\ ShortestBinName(cmd, i + 2) # 0
    THEN [matched |-> TRUE, type |-> cmd[i], quantity |-> cmd[i + 1],
          binName |-> JoinTokens(SubSeq(cmd, i + 2, ShortestBinName(cmd, i + 2))),
          partyName |-> JoinTokens(SubSeq(cmd, ShortestBinName(cmd, i + 2) + 2,
                                          Len(cmd)))]
    ELSE MatchFrom(cmd, i + 1)

\* command.match(/(send|receive|return) (\d+) (.+?) (to|from) (.+)/i)
MovementMatch(cmd) == MatchFrom(cmd, 1)

FindBinByNameDefaulting(data, binName) ==
    LET i == FindIndex(data.binTypes,
                       LAMBDA b : ToLowerCase(b.name) = ToLowerCase(binName))
    IN  IF i = 0 THEN data.binTypes[1].id ELSE data.binTypes[i].id

\* line 922
FindBinByName(data, binName) ==
    LET i == FindIndex(data.binTypes,
                       LAMBDA b : ToLowerCase(b.name) = ToLowerCase(binName))
    IN  IF i = 0 THEN "" ELSE data.binTypes[i].id

\* lines 924-929
CommandDetails(data, m) ==
    [type |-> ToLowerCase(m.type), quantity |-> ParseInt(m.quantity),
     binId |-> FindBinByName(data, m.binName), partyName |-> m.partyName]

NoBinMessage(binName) == "Could not find a bin type named " \o binName
NotUnderstoodMessage == "Sorry, I could only understand bin movements"

\* the commands typed into the bin page's command bar
BinCommands ==
    {<<v, n>> \o b \o <<p, q>> :
        v \in {"Send", "receive", "return"}, n \in {"1", "2"},
        b \in {<<"alg">>, <<"chep", "plastic">>, <<"crate">>},
        p \in {"to", "from"}, q \in {"Ziyard"}}
    \cup {<<"hello">>, <<"send", "alg", "to", "Bob">>}

\* lines 916-937
HandleBinAICommand(cmd, fail) ==
    LET m == MovementMatch(cmd)
    IN  /\ Idle
        /\ IF m.matched
           THEN IF FindBinByName(binStockData, m.binName) # ""
                THEN /\ HandleBinMovement(binStockData,
                                          CommandDetails(binStockData, m), fail)
                     /\ UNCHANGED infoModalContent
                ELSE /\ fail = "none"
                     /\ infoModalContent' = NoBinMessage(m.binName)
                     /\ UNCHANGED << bin_parties, bin_balances, bin_history_log,
                                     binStockData, faults, ledger >>
           ELSE /\ fail = "none"
                /\ infoModalContent' = NotUnderstoodMessage
                /\ UNCHANGED << bin_parties, bin_balances, bin_history_log,
                                binStockData, faults, ledger >>
        /\ UNCHANGED << confirmationRequest, notesTimer, reloadPending >>
        /\ UNCHANGED << stockVars, sideVars >>

\* Dashboard lines 1090 and 1098: "Got it" or the overlay
DismissInfo ==
    /\ infoModalContent # ""
    /\ infoModalContent' = ""
    /\ UNCHANGED << binVars, stockVars, confirmationRequest, faults >>

(* ------------------------------- notes -------------------------------- *)
\* Dashboard line 703, evaluated on the binStockData of the render whose
\* handleUpdateNotes the timer callback closes over
ExistingNote(data) ==
    LET i == FindIndex(data.history, LAMBDA h : h.type = "note")
    IN  IF i = 0 THEN 0 ELSE data.history[i].id

\* BinStockPage lines 316-325: a keystroke re-arms the one-second timer
HandleNotesChange(newNotes) ==
    /\ Idle
    /\ notesTimer' = [active |-> TRUE, notes |-> newNotes,
                      existingNote |-> ExistingNote(binStockData)]
    /\ UNCHANGED << bin_parties, bin_balances, bin_history_log, binStockData,
                    confirmationRequest, infoModalContent, reloadPending, faults,
                    ledger >>
    /\ UNCHANGED << stockVars, sideVars >>

NoteFaults == {"none", "write"}

\* Dashboard lines 701-713 up to the await of fetchBinData: the timer fires
HandleUpdateNotes(fail) ==
    /\ notesTimer.active
    /\ Fault(fail)
    /\ IF notesTimer.existingNote # 0
       THEN \* lines 705-707
            /\ bin_history_log' =
                   IF fail = "write" THEN bin_history_log
                   ELSE [i \in 1..Len(bin_history_log) |->
                            IF bin_history_log[i].id = notesTimer.existingNote
                            THEN [bin_history_log[i] EXCEPT !.change = notesTimer.notes]
                            ELSE bin_history_log[i]]
            /\ binStockData' =
                   IF fail = "write" THEN binStockData
                   ELSE [binStockData EXCEPT !.notes = notesTimer.notes]
            /\ UNCHANGED reloadPending
       ELSE \* lines 709-711
            /\ Len(bin_history_log) < MaxLog
            /\ bin_history_log' =
                   IF fail = "write" THEN bin_history_log
                   ELSE Append(bin_history_log,
                               [id |-> FreshLogId(bin_history_log), type |-> "note",
                                change |-> notesTimer.notes, details |-> NoDetails])
            /\ reloadPending' = (reloadPending \/ fail # "write")
            /\ UNCHANGED binStockData
    /\ notesTimer' = NoTimer
    /\ UNCHANGED << bin_parties, bin_balances, confirmationRequest, infoModalContent,
                    ledger >>
    /\ UNCHANGED << stockVars, sideVars >>

\* Dashboard line 711: the fetchBinData awaited after the insert returns
ReloadCompletes(fail) ==
    /\ reloadPending
    /\ Fault(fail)
    /\ binStockData' = FetchBinData(bin_parties, bin_balances, bin_history_log,
                                    fail = "fetch")
    /\ reloadPending' = FALSE
    /\ UNCHANGED << bin_parties, bin_balances, bin_history_log, confirmationRequest,
                    infoModalContent, notesTimer, ledger >>
    /\ UNCHANGED << stockVars, sideVars >>

(* ------------------------------ suppliers ----------------------------- *)
\* supplier names are sequences of characters
LowerChar(c) ==
    CASE c = "D" -> "d"
      [] c = "A" -> "a"
      [] c = "N" -> "n"
      [] c = "F" -> "f"
      [] OTHER   -> c

\* String.prototype.toLowerCase on a sequence of characters
LowerChars(a) == [i \in 1..Len(a) |-> LowerChar(a[i])]

Min3(x, y, z) ==
    IF x <= y /\ x <= z THEN x ELSE IF y <= z THEN y ELSE z

\* lines 41-48: row j of the matrix from row j - 1, filled from column i on;
\* row[i + 1] is matrix[j][i]
RECURSIVE FillRow(_, _, _, _, _)
FillRow(previous, a, c, row, i) ==
    IF i > Len(a) THEN row
    ELSE FillRow(previous, a, c,
                 Append(row, Min3(row[i] + 1,
                                  previous[i + 1] + 1,
                                  previous[i] + (IF a[i] = c THEN 0 ELSE 1))),
                 i + 1)

\* lines 38-50: the last row of the matrix, from row j - 1
RECURSIVE LastRow(_, _, _, _)
LastRow(a, b, previous, j) ==
    IF j > Len(b) THEN previous
    ELSE LastRow(a, b, FillRow(previous, a, b[j], << j >>, 1), j + 1)

\* lines 34-51
levenshteinDistance(a, b) ==
    LastRow(LowerChars(a), LowerChars(b), [i \in 1..(Len(a) + 1) |-> i - 1], 1)[Len(a) + 1]

\* lines 59-61: the suppliers from index i on scanned for the least distance;
\* best is the first supplier at the least distance so far (the sort is stable)
RECURSIVE Closest(_, _, _, _)
Closest(lowerName, sups, i, best) ==
    IF i > Len(sups) THEN best
    ELSE Closest(lowerName, sups, i + 1,
                 LET dist == levenshteinDistance(lowerName, sups[i].name)
                 IN  IF best.index = 0 \/ dist < best.dist
                     THEN [index |-> i, dist |-> dist] ELSE best)

\* lines 63-66
SuggestionOf(sups, best) ==
    IF best.index # 0 /\ best.dist <= 3
    THEN [kind |-> "suggestion", suggestion |-> sups[best.index].name]
    ELSE [kind |-> "null"]

findSupplierNoSuggestion(name, sups) ==
    LET lowerName == LowerChars(name)
        direct == FindIndex(sups, LAMBDA x : LowerChars(x.name) = lowerName)
    IN  IF direct # 0 THEN [kind |-> "match", supplier |-> sups[direct]]
        ELSE [kind |-> "null"]

\* lines 54-67
findSupplier(name, sups) ==
    LET lowerName == LowerChars(name)
        direct == FindIndex(sups, LAMBDA x : LowerChars(x.name) = lowerName)
    IN  IF direct # 0 THEN [kind |-> "match", supplier |-> sups[direct]]
        ELSE SuggestionOf(sups, Closest(lowerName, sups, 1, [index |-> 0, dist |-> 0]))

(* ----------------------------- handleAddItem -------------------------- *)
Deons == << "D", "e", "o", "n", "s" >>
NoSupplier == << >>

AddFaults == {"none", "item", "supplier", "transaction", "balance", "log"}

\* line 479
FindItem(items, name) ==
    FindIndex(items, LAMBDA i : ToLowerCase(i.name) = ToLowerCase(name))

\* line 482: Math.abs(existingItem.price - numPrice) > 0.001
PriceDiffers(p1, p2) ==
    (IF p1 >= p2 THEN p1 - p2 ELSE p2 - p1) > PriceTolerance

\* the row of a table or local list with that id replaced
ReplaceById(rows, id, row) ==
    [i \in 1..Len(rows) |-> IF rows[i].id = id THEN row ELSE rows[i]]

WithBalance(rows, id, balance) ==
    [i \in 1..Len(rows) |->
        IF rows[i].id = id THEN [rows[i] EXCEPT !.balance = balance] ELSE rows[i]]

\* line 548
ActivityEntry(d) ==
    [item_name |-> d.name, quantity |-> d.quantity,
     via |-> IF d.transactionType = "credit" /\ d.supplierName # NoSupplier
             THEN d.supplierName ELSE << "c", "a", "s", "h" >>]

\* lines 469-557; items and sups are the stockItems and suppliers the handler
\* closes over
HandleAddItem(d, updateExistingPrice, items, sups, fail) ==
    LET e == FindItem(items, d.name)
        \* lines 487-512
        stored == FindIndex(stock_items, LAMBDA i : i.id = items[e].id)
        updated == [stock_items[stored] EXCEPT
                       !.added_today = items[e].added_today + d.quantity,
                       !.price = IF updateExistingPrice THEN d.price ELSE @]
        inserted == [id |-> Len(stock_items) + 1, name |-> d.name,
                     price |-> d.price, added_today |-> d.quantity,
                     opening_stock |-> 0, packed |-> 0, lost |-> 0]
        table1 == IF e # 0 THEN ReplaceById(stock_items, items[e].id, updated)
                  ELSE Append(stock_items, inserted)
        local1 == IF e # 0 THEN ReplaceById(stockItems, items[e].id, updated)
                  ELSE Append(stockItems, inserted)
        \* lines 515-528
        credit == d.transactionType = "credit" /\ d.supplierName # NoSupplier
        si == FindIndex(sups, LAMBDA x : LowerChars(x.name) = LowerChars(d.supplierName))
        newSupplier == [id |-> Len(suppliersTable) + 1, name |-> d.supplierName,
                        balance |-> 0]
        create == credit /\ si = 0 /\ fail # "supplier"
        supplierId == IF ~credit THEN 0
                      ELSE IF si # 0 THEN sups[si].id
                      ELSE IF create THEN newSupplier.id ELSE 0
        supTable1 == IF create THEN Append(suppliersTable, newSupplier)
                     ELSE suppliersTable
        supLocal1 == IF create THEN Append(suppliers, newSupplier) ELSE suppliers
        \* lines 530-546
        totalValue == d.quantity * d.price
        record == credit /\ supplierId # 0 /\ fail # "transaction"
        supplierToUpdate == FindIndex(sups, LAMBDA x : x.id = supplierId)
        raise == record /\ supplierToUpdate # 0 /\ fail # "balance"
        newBalance == sups[supplierToUpdate].balance + totalValue
    IN  /\ Fault(fail)
        /\ IF e # 0 /\ PriceDiffers(items[e].price, d.price) /\ ~updateExistingPrice
           THEN \* lines 482-486
                /\ fail = "none"
                /\ priceConfirmation' = [open |-> TRUE, item |-> items[e],
                                         newItemData |-> d]
                /\ modal' = "confirmPriceChange"
                /\ UNCHANGED << stock_items, suppliersTable, credit_transactions,
                                activity_log, stockItems, suppliers >>
           ELSE /\ Len(activity_log) < MaxActivity
                /\ e # 0 => stored # 0
                /\ fail = "supplier" => (credit /\ si = 0)
                /\ fail = "transaction" => (credit /\ supplierId # 0)
                /\ fail = "balance" => (credit /\ supplierToUpdate # 0)
                /\ modal' = "none"
                /\ priceConfirmation' = NoPriceConfirmation
                /\ IF fail = "item"
                   THEN \* lines 497-499 and 508-510
                        UNCHANGED << stock_items, suppliersTable, credit_transactions,
                                     activity_log, stockItems, suppliers >>
                   ELSE /\ stock_items' = table1
                        /\ stockItems' = local1
                        /\ credit_transactions' =
                               IF record
                               THEN Append(credit_transactions,
                                           [supplier_id |-> supplierId,
                                            stock_item_name |-> d.name,
                                            quantity |-> d.quantity,
                                            total_value |-> totalValue])
                               ELSE credit_transactions
                        /\ suppliersTable' =
                               IF raise THEN WithBalance(supTable1, supplierId, newBalance)
                               ELSE supTable1
                        /\ suppliers' =
                               IF raise THEN WithBalance(supLocal1, supplierId, newBalance)
                               ELSE supLocal1
                        /\ activity_log' = IF fail = "log" THEN activity_log
                                           ELSE Append(activity_log, ActivityEntry(d))

(* ----------------------- stock dialogs and commands ------------------- *)
\* the Add Stock form (line 1111) submits newItemData
SubmitAddItem(d, fail) ==
    /\ Idle
    /\ HandleAddItem(d, FALSE, stockItems, suppliers, fail)
    /\ lastOp' = [op |-> "addItem"]
    /\ UNCHANGED << binVars, confirmationRequest, infoModalContent >>

\* line 1176: "No, Keep Old Price"
KeepOldPrice(fail) ==
    /\ modal = "confirmPriceChange"
    /\ HandleAddItem(priceConfirmation.newItemData, FALSE, stockItems, suppliers, fail)
    /\ lastOp' = [op |-> "keepOldPrice"]
    /\ UNCHANGED << binVars, confirmationRequest, infoModalContent >>

\* line 1177: "Yes, Update to New Price"
UpdateToNewPrice(fail) ==
    /\ modal = "confirmPriceChange"
    /\ HandleAddItem(priceConfirmation.newItemData, TRUE, stockItems, suppliers, fail)
    /\ lastOp' = [op |-> "updateToNewPrice"]
    /\ UNCHANGED << binVars, confirmationRequest, infoModalContent >>

\* lines 855-864
AddDataOf(response) ==
    [name |-> response.name, quantity |-> response.quantity, price |-> response.price,
     transactionType |-> IF response.supplier # NoSupplier THEN "credit" ELSE "cash",
     supplierName |-> response.supplier]

UnknownMessage == "Sorry, I couldn't understand that command. Please try rephrasing."

\* lines 853-886: the ADD branch; supplierMatch is what findSupplier returned
AddFromCommand(response, supplierMatch, fail) ==
    IF response.supplier # NoSupplier /\ supplierMatch.kind = "suggestion"
    THEN \* lines 869-879
         /\ fail = "none"
         /\ confirmationRequest' =
                [kind |-> "supplier", addData |-> AddDataOf(response),
                 suggestion |-> supplierMatch.suggestion,
                 stockItems |-> stockItems, suppliers |-> suppliers]
         /\ UNCHANGED << stockItems, suppliers, stock_items, suppliersTable,
                         credit_transactions, activity_log, modal,
                         priceConfirmation, infoModalContent, faults >>
    ELSE \* line 885
         /\ HandleAddItem(AddDataOf(response), FALSE, stockItems, suppliers, fail)
         /\ UNCHANGED << confirmationRequest, infoModalContent >>

\* lines 794-914 for a command that is no report request; response is what the
\* language model answered, parsed (the UPDATE branch is HandleAIUpdateCommand)
HandleAICommand(response, fail) ==
    /\ Idle
    /\ response.action # "UPDATE"
    /\ fail # "none" => faults < MaxFaults
    /\ lastOp' = [op |-> "aiCommand", response |-> response]
    /\ UNCHANGED binVars
    /\ IF response.action = "ADD"
       THEN AddFromCommand(response, findSupplier(response.supplier, suppliers), fail)
       ELSE /\ fail = "none"
            /\ infoModalContent' =
                   IF response.action = "" THEN infoModalContent
                   ELSE IF response.action = "QUERY" THEN response.answer
                   ELSE UnknownMessage
            /\ UNCHANGED << stockItems, suppliers, stock_items, suppliersTable,
                            credit_transactions, activity_log, modal, priceConfirmation,
                            confirmationRequest, faults >>

\* lines 873-876: onConfirm of the supplier request, with the handleAddItem of
\* the render in which the command was submitted
ConfirmSupplier(fail) ==
    /\ confirmationRequest.kind = "supplier"
    /\ HandleAddItem([confirmationRequest.addData EXCEPT
                         !.supplierName = confirmationRequest.suggestion],
                     FALSE, confirmationRequest.stockItems,
                     confirmationRequest.suppliers, fail)
    /\ confirmationRequest' = NoRequest
    /\ lastOp' = [op |-> "confirmSupplier"]
    /\ UNCHANGED << binVars, infoModalContent >>

(* ------------------------------ stock inputs -------------------------- *)
Prices == {2000, 2001, 3000}

\* what the Add Stock form submits
AddItemInputs ==
    {[name |-> "Widget", quantity |-> 2, price |-> p, transactionType |-> t,
      supplierName |-> IF t = "credit" THEN Deons ELSE NoSupplier] :
        p \in Prices, t \in {"cash", "credit"}}

\* supplier names the language model may return: none, a stored name, a stored
\* name in another case, names at distance 1 and 3, and an unrelated name
ResponseSuppliers ==
    {NoSupplier, Deons, << "d", "e", "o", "n", "s" >>, << "D", "e", "o", "n" >>,
     << "D", "e" >>, << "A", "c", "m", "e" >>}

AIResponses ==
    {[action |-> "ADD", name |-> "widget", quantity |-> 1, price |-> 2000,
      supplier |-> x] : x \in ResponseSuppliers}
    \cup {[action |-> "QUERY", answer |-> "The total stock value is R0.00."],
          [action |-> "UNKNOWN"],
          \* lines 839-850: no text, and text that is no JSON
          [action |-> "", text |-> ""],
          [action |-> "", text |-> "Sure, I have added the boxes."]}

(* --------------------------- specifications --------------------------- *)
Init == BinInit /\ StockInit /\ AppSignedIn

\* the movement form and its confirmation dialog
LedgerNext ==
    \/ \E t \in MovementTypes, q \in Quantities, b \in BinIds, n \in PartyNames :
           HandleLogMovement(t, q, b, n)
    \/ \E f \in MovementFaults : ConfirmMovement(f)
    \/ CancelRequest

Next == LedgerNext

Spec == Init /\ [][Next]_vars

\* the Add Party dialog and the removal of a party, next to the movement form
PartyNext ==
    \/ \E t \in {"sent", "returned"}, n \in PartyNames :
           HandleLogMovement(t, 1, "b1", n)
    \/ \E f \in MovementFaults : ConfirmMovement(f)
    \/ \E p \in PartyIds : HandleRemoveParty(p)
    \/ \E f \in RemoveFaults : ConfirmRemoveParty(f)
    \/ CancelRequest
    \/ \E n \in PartyNames, f \in AddPartyFaults : HandleAddParty(n, f)

PartySpec == Init /\ [][PartyNext]_vars

\* the cells of the party tables, next to the movement form
EditNext ==
    \/ \E t \in {"sent", "received"}, b \in BinIds : HandleLogMovement(t, 1, b, "Ziyard")
    \/ \E f \in {"none", "fetch"} : ConfirmMovement(f)
    \/ \E p \in PartyIds, b \in BinIds, v \in EditValues : HandlePartyBinChange(p, b, v)
    \/ \E f \in EditFaults : ConfirmEdit(f)
    \/ CancelRequest

EditSpec == Init /\ [][EditNext]_vars

\* the command bar of the bin page, next to the Add Party dialog
CommandNext ==
    \/ \E c \in BinCommands, f \in MovementFaults : HandleBinAICommand(c, f)
    \/ DismissInfo
    \/ \E f \in AddPartyFaults : HandleAddParty("Ziyard", f)

CommandSpec == Init /\ [][CommandNext]_vars

\* the notes editor, next to the movement form
NotesNext ==
    \/ \E t \in NoteTexts : HandleNotesChange(t)
    \/ \E f \in NoteFaults : HandleUpdateNotes(f)
    \/ \E f \in {"none", "fetch"} : ReloadCompletes(f)
    \/ \E q \in Quantities : HandleLogMovement("sent", q, "b1", "Ziyard")
    \/ \E f \in MovementFaults : ConfirmMovement(f)
    \/ CancelRequest

NotesSpec == Init /\ [][NotesNext]_vars

\* the stock side: the Add Stock form, the price-mismatch dialog and the
\* interpreted commands
StockNext ==
    \/ \E d \in AddItemInputs, f \in AddFaults : SubmitAddItem(d, f)
    \/ \E f \in AddFaults : KeepOldPrice(f)
    \/ \E f \in AddFaults : UpdateToNewPrice(f)
    \/ \E r \in AIResponses, f \in AddFaults : HandleAICommand(r, f)
    \/ \E f \in AddFaults : ConfirmSupplier(f)
    \/ CancelRequest
    \/ DismissInfo

StockSpec == Init /\ [][StockNext]_vars

\* the quantities the movement form's number field can hold (it has no min
\* attribute, BinStockPage line 572; the empty field counts as 0 at line 250)
FormQuantities == {0 - 1, 0, 1}

\* commands whose quantity group (\d+) is "0" or "1", and one without a quantity
QuantityCommands ==
    {<<v, n, "alg", "to", "Ziyard">> : v \in {"send", "receive"}, n \in {"0", "1"}}
    \cup {<<"send", "alg", "to", "Ziyard">>}

\* the movement form and the command bar, with every quantity they accept
QuantityNext ==
    \/ \E t \in {"sent", "received"}, q \in FormQuantities :
           HandleLogMovement(t, q, "b1", "Ziyard")
    \/ \E f \in MovementFaults : ConfirmMovement(f)
    \/ CancelRequest
    \/ \E c \in QuantityCommands, f \in MovementFaults : HandleBinAICommand(c, f)
    \/ DismissInfo

QuantitySpec == Init /\ [][QuantityNext]_vars

(* ------------------- handleStockUpdate and handleNewDay --------------- *)
\* the longest activity log a day's edits and its rollover are followed to
MaxDayLog == 4

\* enhancedStockData's remaining with added_today left out
RemainingOfOpening(item) == item.opening_stock - (item.packed + item.lost)

\* lines 1025-1026: remaining = opening_stock + added_today - (packed + lost)
Remaining(item) == item.opening_stock + item.added_today - (item.packed + item.lost)

\* line 1027
StockValue(item) == Remaining(item) * item.price

\* item[field] of lines 322 and 332
FieldOf(item, field) ==
    CASE field = "packed" -> item.packed
      [] field = "lost" -> item.lost
      [] field = "added_today" -> item.added_today
      [] field = "opening_stock" -> item.opening_stock

\* { ...item, [field]: value }
WithField(item, field, value) ==
    CASE field = "packed" -> [item EXCEPT !.packed = value]
      [] field = "lost" -> [item EXCEPT !.lost = value]
      [] field = "added_today" -> [item EXCEPT !.added_today = value]
      [] field = "opening_stock" -> [item EXCEPT !.opening_stock = value]

\* the rows with that id carrying the new value of the field
SetField(rows, id, field, value) ==
    [i \in 1..Len(rows) |->
        IF rows[i].id = id THEN WithField(rows[i], field, value) ELSE rows[i]]

StockUpdateFaults == {"none", "update", "log"}

\* lines 317-362: a cell of the stock table is edited
HandleStockUpdate(itemId, field, value, fail) ==
    LET i == FindIndex(stockItems, LAMBDA x : x.id = itemId)
    IN  /\ Idle
        /\ Fault(fail)
        /\ i # 0
        /\ FieldOf(stockItems[i], field) # value
        /\ Len(activity_log) < MaxDayLog
        /\ IF fail = "update"
           THEN \* lines 333-337: the optimistic change is reverted
                UNCHANGED << stock_items, stockItems, activity_log >>
           ELSE /\ stockItems' = SetField(stockItems, itemId, field, value)
                /\ stock_items' = SetField(stock_items, itemId, field, value)
                /\ activity_log' =
                       IF fail = "log" THEN activity_log
                       ELSE Append(activity_log,
                                   [item_name |-> stockItems[i].name,
                                    change |-> << "Set", field, value >>])
        /\ lastOp' = [op |-> "stockUpdate"]
        /\ UNCHANGED << suppliersTable, credit_transactions, suppliers, modal,
                        priceConfirmation >>
        /\ UNCHANGED << binVars, confirmationRequest, infoModalContent >>

\* lines 368-377 and 388-397: an item after the rollover
RolledOver(item) ==
    [item EXCEPT !.opening_stock = Remaining(item), !.added_today = 0,
                 !.packed = 0, !.lost = 0]

UpsertRolloverKeepingPacked(table, items) ==
    [i \in 1..Len(table) |->
        LET j == FindIndex(items, LAMBDA x : x.id = table[i].id)
        IN  IF j = 0 THEN table[i]
            ELSE [table[i] EXCEPT !.opening_stock = Remaining(items[j]),
                                  !.added_today = 0, !.lost = 0]]

\* line 379: upsert(updates) writes the five columns of each update to the
\* stored row with its id
UpsertRollover(table, items) ==
    [i \in 1..Len(table) |->
        LET j == FindIndex(items, LAMBDA x : x.id = table[i].id)
        IN  IF j = 0 THEN table[i]
            ELSE [table[i] EXCEPT !.opening_stock = Remaining(items[j]),
                                  !.added_today = 0, !.packed = 0, !.lost = 0]]

\* line 1295: the New Day button opens the dialog
OpenNewDay ==
    /\ Idle
    /\ modal' = "newDay"
    /\ lastOp' = [op |-> "openNewDay"]
    /\ UNCHANGED << stock_items, suppliersTable, credit_transactions, activity_log,
                    stockItems, suppliers, priceConfirmation >>
    /\ UNCHANGED << binVars, confirmationRequest, infoModalContent, faults >>

\* line 1065: Cancel in the New Day dialog
CancelNewDay ==
    /\ modal = "newDay"
    /\ modal' = "none"
    /\ lastOp' = [op |-> "cancelNewDay"]
    /\ UNCHANGED << stock_items, suppliersTable, credit_transactions, activity_log,
                    stockItems, suppliers, priceConfirmation >>
    /\ UNCHANGED << binVars, confirmationRequest, infoModalContent, faults >>

NewDayFaults == {"none", "upsert", "log"}

\* lines 364-414: Proceed in the New Day dialog
HandleNewDay(fail) ==
    /\ modal = "newDay"
    /\ Fault(fail)
    /\ Len(activity_log) < MaxDayLog
    /\ modal' = "none"
    /\ lastOp' = [op |-> "newDay", fail |-> fail]
    /\ IF fail = "upsert"
       THEN \* lines 380-385
            UNCHANGED << stock_items, stockItems, activity_log >>
       ELSE /\ stock_items' = UpsertRollover(stock_items, stockItems)
            /\ stockItems' = [i \in 1..Len(stockItems) |-> RolledOver(stockItems[i])]
            /\ activity_log' =
                   IF fail = "log" THEN activity_log
                   ELSE Append(activity_log,
                               [item_name |-> "All Items",
                                change |-> << "New Day" >>])
    /\ UNCHANGED << suppliersTable, credit_transactions, suppliers, priceConfirmation >>
    /\ UNCHANGED << binVars, confirmationRequest, infoModalContent >>

\* the items a day's work adds
DayItems ==
    {[name |-> n, quantity |-> 2, price |-> 2000, transactionType |-> "cash",
      supplierName |-> NoSupplier] : n \in {"Widget", "Gadget"}}

\* the stock table's cells, the Add Stock form and the New Day dialog
DayNext ==
    \/ \E d \in DayItems, f \in {"none", "item"} : SubmitAddItem(d, f)
    \/ \E id \in 1..2, field \in {"packed", "lost"}, v \in 0..1,
          f \in StockUpdateFaults : HandleStockUpdate(id, field, v, f)
    \/ OpenNewDay
    \/ CancelNewDay
    \/ \E f \in NewDayFaults : HandleNewDay(f)

DaySpec == Init /\ [][DayNext]_vars

(* ------------------- calculatedData and MixedBinCellDisplay ----------- *)
\* Dashboard lines 158-164: binTypes and customBinTypes of a bin_types table
DisplayedBinTypes(table) ==
    SelectSeq(table, LAMBDA bt : bt.category \in {"standard", "mixed"})

CustomBinTypesOf(table) ==
    [i \in 1..Len(SelectSeq(table, LAMBDA bt : bt.sub_category # "")) |->
        LET bt == SelectSeq(table, LAMBDA x : x.sub_category # "")[i]
        IN  [id |-> bt.id, name |-> bt.name, category |-> bt.sub_category]]

\* BinStockPage lines 173-174 and 178-179: the counts of the custom types of a
\* sub-category added up, a missing count as 0
RECURSIVE SumOfCategory(_, _, _, _)
SumOfCategory(customBinTypes, category, bins, i) ==
    IF i > Len(customBinTypes) THEN 0
    ELSE (IF customBinTypes[i].category = category
          THEN CountOr0(bins, customBinTypes[i].id) ELSE 0)
         + SumOfCategory(customBinTypes, category, bins, i + 1)

\* BinStockPage lines 176-180: updateMixedTotals on one row's bins
UpdateMixedTotals(bins, customBinTypes) ==
    [b \in (DOMAIN bins) \cup {"mixedWood", "mixedPlastic"} |->
        IF b \in {"mixedWood", "mixedPlastic"}
        THEN SumOfCategory(customBinTypes, b, bins, 1)
        ELSE bins[b]]

\* BinStockPage lines 123-125: the sub-types listed in the cell
SubBins(category, bins, customBinTypes) ==
    {b \in Range(customBinTypes) :
        b.category = category /\ CountOr0(bins, b.id) > 0}

\* BinStockPage lines 122-142: what the cell shows
MixedBinCellDisplay(category, bins, customBinTypes) ==
    IF SubBins(category, bins, customBinTypes) = {}
    THEN [kind |-> "total", total |-> CountOr0(bins, category)]
    ELSE [kind |-> "breakdown",
          rows |-> {[name |-> b.name, count |-> bins[b.id]] :
                       b \in SubBins(category, bins, customBinTypes)}]

\* the bin_types tables a team can have: the mixed parent "Mixed Wood" bears
\* the id of constants.ts line 43 or an id the store generated, with or
\* without its own sub_category, next to two custom sub-types
MixedTypeTables ==
    {<< [id |-> p, name |-> "Mixed Wood", category |-> "mixed", sub_category |-> s],
        [id |-> "c1", name |-> "Pine", category |-> "mixed",
         sub_category |-> "mixedWood"],
        [id |-> "c2", name |-> "Oak", category |-> "mixed",
         sub_category |-> "mixedWood"] >> :
        p \in {"mixedWood", "u0"}, s \in {"", "mixedWood"}}

\* the stored counts of one status row or party row for those types
MixedRowCounts ==
    {[b \in {p, "c1", "c2"} |-> IF b = p THEN x ELSE IF b = "c1" THEN y ELSE z] :
        p \in {"mixedWood", "u0"}, x \in 0..2, y \in (0 - 1)..2, z \in (0 - 1)..2}

\* BinStockPage lines 393-426: a row's cell of the mixed parent column is
\* rendered from calculatedData
RenderMixedCell(table, bins) ==
    /\ table[1].id \in DOMAIN bins
    /\ mixedCell' =
           [rendered |-> TRUE, category |-> table[1].id, bins |-> bins,
            customBinTypes |-> CustomBinTypesOf(table),
            shown |-> MixedBinCellDisplay(
                          table[1].id,
                          UpdateMixedTotals(bins, CustomBinTypesOf(table)),
                          CustomBinTypesOf(table))]
    /\ UNCHANGED << bin_parties, bin_balances, bin_history_log, bin_status_counts,
                    binStockData, notesTimer, reloadPending, ledger >>
    /\ UNCHANGED << daily_bin_totals, our_bins, daily_rollover_log, variable_conflict >>
    /\ UNCHANGED << stockVars, appVars, flightVars, confirmationRequest, infoModalContent, faults >>

MixedNext ==
    \E table \in MixedTypeTables, bins \in MixedRowCounts : RenderMixedCell(table, bins)

MixedSpec == Init /\ [][MixedNext]_vars

(* ----------------- perform_daily_rollover (deployment guide) ----------- *)
\* rollovers followed in one behaviour
MaxRollovers == 3


\* the row of daily_bin_totals for a bin type and date, 0 when none
TotalsRow(totals, b, date) ==
    FindIndex(totals, LAMBDA r : r.bin_type_id = b /\ r.date = date)

\* part_001 lines 139-143: SUM(balance) over the positive balances of a bin type
WeOweTotal(bal, b) ==
    LET keys == {k \in DOMAIN bal : k[2] = b /\ bal[k] > 0}
    IN  SumSet([k \in keys |-> bal[k]], keys)

\* part_001 lines 152-157: SUM(ABS(balance)) over the negative balances
BinsLentOutTotal(bal, b) ==
    LET keys == {k \in DOMAIN bal : k[2] = b /\ bal[k] < 0}
    IN  SumSet([k \in keys |-> 0 - bal[k]], keys)

\* part_001 lines 131-136: SELECT COALESCE(opening_total, 0) INTO opening_total;
\* without a row the target is null; with one, the name inside COALESCE is the
\* column under use_column and the (null) variable under use_variable
OpeningTotalRead(totals, b, date, setting) ==
    IF TotalsRow(totals, b, date) = 0 THEN Null
    ELSE IF setting = "use_variable" THEN NotNull(0)
    ELSE NotNull(totals[TotalsRow(totals, b, date)].opening_total)

\* part_001 lines 145-149: SELECT COALESCE(quantity, 0) INTO our_bins_total
OurBinsRead(owned, b) == IF b \in DOMAIN owned THEN NotNull(owned[b]) ELSE Null

\* part_001 lines 119-163; null when an operand is null
calculate_now_total(totals, bal, owned, setting, b, date) ==
    IF OpeningTotalRead(totals, b, date, setting) = Null \/ OurBinsRead(owned, b) = Null
    THEN Null
    ELSE NotNull(ValueOf(OpeningTotalRead(totals, b, date, setting))
                     + WeOweTotal(bal, b) + ValueOf(OurBinsRead(owned, b))
                     - BinsLentOutTotal(bal, b))

\* part_001 lines 186-197: INSERT ... ON CONFLICT (team_id, bin_type_id, date)
\* DO UPDATE SET opening_total
UpsertTotal(totals, b, date, v) ==
    IF TotalsRow(totals, b, date) = 0
    THEN Append(totals, [bin_type_id |-> b, date |-> date, opening_total |-> v,
                         now_total |-> 0])
    ELSE [totals EXCEPT ![TotalsRow(totals, b, date)].opening_total = v]

\* part_001 lines 182-198: the loop over the bin types from the i-th on
RECURSIVE RolloverLoop(_, _, _)
RolloverLoop(totals, date, i) ==
    IF i > Len(BinTypes) THEN totals
    ELSE RolloverLoop(UpsertTotal(totals, BinTypes[i].id, date,
                                  ValueOf(calculate_now_total(
                                              totals, bin_balances, our_bins,
                                              variable_conflict,
                                              BinTypes[i].id, date - 1))),
                      date, i + 1)

\* the function raises: the ambiguous name under the default setting, or a
\* null opening_total for the NOT NULL column (part_001 line 57)
RolloverRaises(date) ==
    \/ variable_conflict = "error"
    \/ \E i \in 1..Len(BinTypes) :
           calculate_now_total(daily_bin_totals, bin_balances, our_bins,
                               variable_conflict, BinTypes[i].id, date - 1) = Null

\* what an invocation for the date reads
RolloverReads(date) ==
    << bin_balances, our_bins,
       SelectSeq(daily_bin_totals, LAMBDA r : r.date = date - 1) >>

\* part_001 lines 166-200; an error rolls the whole call back
perform_daily_rollover(date) ==
    /\ (IF lastOp.op = "rollover" THEN lastOp.n ELSE 0) < MaxRollovers
    /\ lastOp' = [op |-> "rollover",
                  n |-> (IF lastOp.op = "rollover" THEN lastOp.n ELSE 0) + 1,
                  date |-> date, read |-> RolloverReads(date)]
    /\ IF RolloverRaises(date)
       THEN UNCHANGED << daily_bin_totals, daily_rollover_log >>
       ELSE /\ daily_bin_totals' = RolloverLoop(daily_bin_totals, date, 1)
            /\ daily_rollover_log' =
                   Append(daily_rollover_log,
                          [rollover_date |-> date, previous_date |-> date - 1])
    /\ UNCHANGED << bin_parties, bin_balances, bin_history_log, binStockData,
                    notesTimer, reloadPending, ledger, bin_status_counts, mixedCell,
                    our_bins, variable_conflict >>
    /\ UNCHANGED << stock_items, suppliersTable, credit_transactions, activity_log,
                    stockItems, suppliers, modal, priceConfirmation >>
    /\ UNCHANGED << appVars, flightVars, confirmationRequest, infoModalContent, faults >>

\* daily_bin_totals as found: empty, or with the rows of day 1
SeededTotals ==
    {<<>>,
     << [bin_type_id |-> "b1", date |-> 1, opening_total |-> 1, now_total |-> 0],
        [bin_type_id |-> "b2", date |-> 1, opening_total |-> 0, now_total |-> 0] >>}

\* our_bins as found: empty, a row for one bin type, a row for each
SeededOurBins ==
    {NoOwnedBins, [b \in {"b1"} |-> 1], [b \in BinIds |-> 1]}

VariableConflictSettings == {"error", "use_variable", "use_column"}

RolloverInit ==
    /\ BinInitWith(NoStatusRows)
    /\ NoneInFlight
    /\ \E totals \in SeededTotals, owned \in SeededOurBins,
          setting \in VariableConflictSettings :
           RolloverInitWith(totals, owned, setting)
    /\ StockInit
    /\ AppSignedIn

\* the rollover next to the movement form
RolloverNext ==
    \/ \E t \in {"sent", "received"} : HandleLogMovement(t, 1, "b1", "Ziyard")
    \/ ConfirmMovement("none")
    \/ CancelRequest
    \/ \E date \in 2..3 : perform_daily_rollover(date)

RolloverSpec == RolloverInit /\ [][RolloverNext]_vars

(* ---------------------- handleUpdateStatusCount ----------------------- *)
\* BinStockPage lines 35-41: STATUS_ROWS' editable flags
StatusRowEditable(statusKey) == statusKey # "total"

StatusFaults == {"none", "upsert", "fetch"}

\* Dashboard line 717: the row of the status and bin type written
UpsertStatusCount(counts, statusKey, binId, newValue) ==
    [k \in (DOMAIN counts) \cup {<<statusKey, binId>>} |->
        IF k = <<statusKey, binId>> THEN newValue ELSE counts[k]]

\* Dashboard lines 715-720
HandleUpdateStatusCount(statusKey, binId, newValue, fail) ==
    /\ Fault(fail)
    /\ lastOp' = [op |-> "updateStatusCount", statusKey |-> statusKey]
    /\ IF fail = "upsert"
       THEN UNCHANGED << bin_status_counts, binStockData >>
       ELSE /\ bin_status_counts' =
                   UpsertStatusCount(bin_status_counts, statusKey, binId, newValue)
            /\ binStockData' =
                   FetchBinDataFrom(bin_status_counts', bin_parties, bin_balances,
                                    bin_history_log, fail = "fetch")

\* BinStockPage lines 393-413 and 289-292: a cell of an editable status row
\* of a displayed standard column is left with another number in it
HandleStatusBinChange(statusKey, binId, newValue, fail) ==
    /\ Idle
    /\ StatusRowEditable(statusKey)
    /\ \E b \in Range(binStockData.binTypes) : b.id = binId
    /\ binId \in DOMAIN binStockData.statuses[statusKey]
           => binStockData.statuses[statusKey][binId] # newValue
    /\ HandleUpdateStatusCount(statusKey, binId, newValue, fail)
    /\ UNCHANGED << bin_parties, bin_balances, bin_history_log, notesTimer,
                    reloadPending, ledger, mixedCell, daily_bin_totals, our_bins,
                    daily_rollover_log, variable_conflict >>
    /\ UNCHANGED << stock_items, suppliersTable, credit_transactions, activity_log,
                    stockItems, suppliers, modal, priceConfirmation >>
    /\ UNCHANGED << appVars, flightVars, confirmationRequest, infoModalContent >>

\* bin_status_counts as found: empty, or with a row of status 'total'
SeededStatusCounts ==
    {NoStatusRows, [k \in {<<"total", "b1">>} |-> 2]}

StatusInit ==
    /\ \E counts \in SeededStatusCounts : BinInitWith(counts)
    /\ NoneInFlight
    /\ RolloverInitWith(<<>>, NoOwnedBins, "error")
    /\ StockInit
    /\ AppSignedIn

\* the status table of the bin page, its first column
StatusNext ==
    \E s \in StatusNames, v \in 0..2, f \in StatusFaults :
        HandleStatusBinChange(s, "b1", v, f)

StatusSpec == StatusInit /\ [][StatusNext]_vars

(* ------------------------ supabaseClient and App ----------------------- *)
\* checkTeam calls the auth listener may await at once
MaxTeamChecks == 2

Users == {"u1", "u2"}
Sessions == {Null} \cup {NotNull(u) : u \in Users}
EnvUrls == {"", "https://project.supabase.co"}
EnvKeys == {"", "anon-key"}

\* the stub: a Proxy around a function whose get trap answers every property
\* with the Proxy itself and whose apply trap returns the Proxy itself
createUnavailableClient == "chain"

\* the exported client: createClient's when both values are present
supabase ==
    IF supabaseUrl # "" /\ supabaseAnonKey # ""
    THEN "client"
    ELSE createUnavailableClient

\* obj.prop: the stub's get trap answers before the assigned then, catch and
\* finally are looked at
GetProp(obj, prop) ==
    CASE obj = "chain" -> "chain"
      [] obj = "client" /\ prop = "auth" -> "auth"
      [] obj = "auth" /\ prop \in {"getSession", "onAuthStateChange"} -> "function"
      [] OTHER -> "undefined"

\* typeof: a Proxy whose target is callable is a function
TypeOf(v) ==
    CASE v \in {"chain", "function"} -> "function"
      [] v = "undefined" -> "undefined"
      [] OTHER -> "object"

supabaseAvailable ==
    TypeOf(GetProp(GetProp(supabase, "auth"), "onAuthStateChange")) = "function"

\* await of a call on the client: the stub's call returns the stub, whose then
\* is the stub again and never calls resolve
AwaitSettles(client) == GetProp(client, "then") # client

\* what the team_members query answers: an error, or the rows found
CheckTeamResults ==
    {[error |-> TRUE, rows |-> 0], [error |-> FALSE, rows |-> 0],
     [error |-> FALSE, rows |-> 1]}

checkTeam(res) == IF res.error THEN FALSE ELSE res.rows > 0

\* the events supabase-js hands to the listener, with their session
AuthEvents ==
    {[event |-> "INITIAL_SESSION", session |-> s] : s \in Sessions}
    \cup {[event |-> e, session |-> NotNull(u)] :
              e \in {"SIGNED_IN", "TOKEN_REFRESHED"}, u \in Users}
    \cup {[event |-> "SIGNED_OUT", session |-> Null]}

\* what App renders
View ==
    IF loading THEN "loader"
    ELSE IF session = Null
         THEN (IF authView = "welcome" THEN "welcome" ELSE "auth")
         ELSE IF hasTeam = NotNull(FALSE) THEN "setupTeam"
              ELSE IF hasTeam = NotNull(TRUE) THEN "dashboard"
                   ELSE "loader"

SignedOutViews == {"welcome", "auth"}

\* what App's own steps leave alone (the Dashboard's state and the tables)
dashboardVars ==
    << bin_parties, bin_balances, bin_history_log, binStockData, notesTimer,
       reloadPending, ledger, bin_status_counts, mixedCell, daily_bin_totals,
       our_bins, daily_rollover_log, variable_conflict, stockVars, flightVars,
       confirmationRequest, infoModalContent, faults >>

ClearInitTimeout ==
    initTimeout' = IF initTimeout = "armed" THEN "cleared" ELSE initTimeout

\* the effect, up to the first await of its async function
AppMount ==
    /\ authInit = "notMounted"
    /\ IF ~supabaseAvailable
       THEN /\ loading' = FALSE
            /\ session' = Null
            /\ hasTeam' = NotNull(FALSE)
            /\ authInit' = "skipped"
            /\ UNCHANGED initTimeout
       ELSE /\ initTimeout' = "armed"
            /\ authInit' = "getSession"
            /\ UNCHANGED << loading, session, hasTeam >>
    /\ UNCHANGED << supabaseUrl, supabaseAnonKey, authView, subscription, teamChecks >>
    /\ UNCHANGED dashboardVars

\* the timer's callback
InitTimeoutFires ==
    /\ initTimeout = "armed"
    /\ initTimeout' = "fired"
    /\ loading' = FALSE
    /\ UNCHANGED << supabaseUrl, supabaseAnonKey, session, authView, hasTeam,
                    authInit, subscription, teamChecks >>
    /\ UNCHANGED dashboardVars

\* getSession resolves (an error resolves with no session): with a session
\* the function goes on to await checkTeam, without one it subscribes and
\* runs its finally block
GetSessionResolved(sessionObj) ==
    /\ authInit = "getSession"
    /\ AwaitSettles(supabase)
    /\ session' = sessionObj
    /\ IF sessionObj # Null
       THEN /\ authInit' = "checkTeam"
            /\ UNCHANGED << hasTeam, subscription, initTimeout, loading >>
       ELSE /\ hasTeam' = NotNull(FALSE)
            /\ subscription' = TRUE
            /\ ClearInitTimeout
            /\ loading' = FALSE
            /\ authInit' = "done"
    /\ UNCHANGED << supabaseUrl, supabaseAnonKey, authView, teamChecks >>
    /\ UNCHANGED dashboardVars

\* getSession rejects: the catch block, then the finally block
GetSessionRejected ==
    /\ authInit = "getSession"
    /\ AwaitSettles(supabase)
    /\ loading' = FALSE
    /\ ClearInitTimeout
    /\ authInit' = "done"
    /\ UNCHANGED << supabaseUrl, supabaseAnonKey, session, authView, hasTeam,
                    subscription, teamChecks >>
    /\ UNCHANGED dashboardVars

\* the initial checkTeam resolves
CheckTeamResolved(res) ==
    /\ authInit = "checkTeam"
    /\ hasTeam' = NotNull(checkTeam(res))
    /\ subscription' = TRUE
    /\ ClearInitTimeout
    /\ loading' = FALSE
    /\ authInit' = "done"
    /\ UNCHANGED << supabaseUrl, supabaseAnonKey, session, authView, teamChecks >>
    /\ UNCHANGED dashboardVars

\* the initial checkTeam rejects: the inner catch block
CheckTeamRejected ==
    /\ authInit = "checkTeam"
    /\ hasTeam' = NotNull(FALSE)
    /\ subscription' = TRUE
    /\ ClearInitTimeout
    /\ loading' = FALSE
    /\ authInit' = "done"
    /\ UNCHANGED << supabaseUrl, supabaseAnonKey, session, authView, teamChecks >>
    /\ UNCHANGED dashboardVars

\* the listener, up to its await of checkTeam
\* lines 114-127 with a checkTeam for every event that carries a session
OnAuthStateChangeAlwaysChecks(ev) ==
    /\ subscription
    /\ session' = ev.session
    /\ authEvent' = ev.event
    /\ IF ev.session # Null
       THEN /\ Len(teamChecks) < MaxTeamChecks
            /\ teamChecks' = Append(teamChecks, ValueOf(ev.session))
            /\ UNCHANGED hasTeam
       ELSE /\ hasTeam' = IF ev.event = "SIGNED_OUT" THEN NotNull(FALSE) ELSE hasTeam
            /\ UNCHANGED teamChecks
    /\ UNCHANGED << supabaseUrl, supabaseAnonKey, loading, authView, initTimeout,
                    authInit, subscription >>
    /\ UNCHANGED << pageVars, stockVars, movements, stockUpdates, retry >>

OnAuthStateChange(ev) ==
    /\ subscription
    /\ session' = ev.session
    /\ authEvent' = ev.event
    /\ IF ev.event = "SIGNED_IN" /\ ev.session # Null
       THEN /\ Len(teamChecks) < MaxTeamChecks
            /\ teamChecks' = Append(teamChecks, ValueOf(ev.session))
            /\ UNCHANGED hasTeam
       ELSE /\ hasTeam' = IF ev.event = "SIGNED_OUT" THEN NotNull(FALSE) ELSE hasTeam
            /\ UNCHANGED teamChecks
    /\ UNCHANGED << supabaseUrl, supabaseAnonKey, loading, authView, initTimeout,
                    authInit, subscription >>
    /\ UNCHANGED << pageVars, stockVars, movements, stockUpdates, retry >>

WithoutCheck(i) ==
    SubSeq(teamChecks, 1, i - 1) \o SubSeq(teamChecks, i + 1, Len(teamChecks))

\* a checkTeam of the listener resolves
ListenerCheckResolved(i, res) ==
    /\ i \in 1..Len(teamChecks)
    /\ hasTeam' = NotNull(checkTeam(res))
    /\ teamChecks' = WithoutCheck(i)
    /\ UNCHANGED << supabaseUrl, supabaseAnonKey, session, loading, authView,
                    initTimeout, authInit, subscription >>
    /\ UNCHANGED dashboardVars

\* a checkTeam of the listener rejects: logged only
ListenerCheckRejected(i) ==
    /\ i \in 1..Len(teamChecks)
    /\ teamChecks' = WithoutCheck(i)
    /\ UNCHANGED << supabaseUrl, supabaseAnonKey, session, loading, authView,
                    hasTeam, initTimeout, authInit, subscription >>
    /\ UNCHANGED dashboardVars

\* Welcome's onGetStarted
OnGetStarted ==
    /\ View = "welcome"
    /\ authView' = "auth"
    /\ UNCHANGED << supabaseUrl, supabaseAnonKey, session, loading, hasTeam,
                    initTimeout, authInit, subscription, teamChecks >>
    /\ UNCHANGED dashboardVars

\* SetupTeamModal's onTeamCreated
OnTeamCreated ==
    /\ View = "setupTeam"
    /\ hasTeam' = NotNull(TRUE)
    /\ UNCHANGED << supabaseUrl, supabaseAnonKey, session, loading, authView,
                    initTimeout, authInit, subscription, teamChecks >>
    /\ UNCHANGED dashboardVars

\* App before its effect has run, on a build with or without the two values
StartupInit ==
    /\ BinInit
    /\ StockInit
    /\ supabaseUrl \in EnvUrls
    /\ supabaseAnonKey \in EnvKeys
    /\ session = Null
    /\ loading = TRUE
    /\ authView = "welcome"
    /\ hasTeam = Null
    /\ initTimeout = "unset"
    /\ authInit = "notMounted"
    /\ subscription = FALSE
    /\ teamChecks = <<>>

StartupNext ==
    \/ AppMount
    \/ InitTimeoutFires
    \/ \E s \in Sessions : GetSessionResolved(s)
    \/ GetSessionRejected
    \/ \E res \in CheckTeamResults : CheckTeamResolved(res)
    \/ CheckTeamRejected
    \/ \E ev \in AuthEvents : OnAuthStateChange(ev)
    \/ \E i \in 1..MaxTeamChecks, res \in CheckTeamResults : ListenerCheckResolved(i, res)
    \/ \E i \in 1..MaxTeamChecks : ListenerCheckRejected(i)
    \/ OnGetStarted
    \/ OnTeamCreated

StartupSpec == StartupInit /\ [][StartupNext]_vars

\* React runs the effect after the first render, and an armed timer fires
\* unless it is cleared; nothing makes a pending request settle
StartupFairSpec ==
    StartupSpec /\ WF_vars(AppMount) /\ WF_vars(InitTimeoutFires)

(* ------------------ handleBinMovement, await by await ------------------ *)
\* calls of handleBinMovement followed at once
MaxInFlight == 2

StepFaults == {"none", "error"}

\* movements with its i-th call still awaiting
WithMovementKept(i) == movements

\* movements without its i-th call
WithoutMovement(i) ==
    SubSeq(movements, 1, i - 1) \o SubSeq(movements, i + 1, Len(movements))

\* lines 767-772 on the balance stored when the upsert arrives
BalanceToWriteFresh(m) ==
    NewBalance(BalanceOf(bin_balances, m.pid, m.details.binId), m.details.type,
               m.details.quantity)

\* lines 767-772 with the balance the call read at line 760
BalanceToWrite(m) == NewBalance(m.currentBalance, m.details.type, m.details.quantity)

\* Confirm on a movement request: handleBinMovement runs to its first await
\* (line 755 or 760); the request stays open
BeginMovement ==
    LET data == confirmationRequest.data
        d == confirmationRequest.details
        found == FindPartyByName(data, d.partyName)
    IN  /\ confirmationRequest.kind = "movement"
        /\ Len(movements) < MaxInFlight
        /\ movements' = Append(movements,
                               [details |-> d, data |-> data, pid |-> found,
                                currentBalance |-> 0,
                                stage |-> IF found = 0 THEN "party" ELSE "read"])
        /\ UNCHANGED << bin_parties, bin_balances, bin_history_log, binStockData,
                        confirmationRequest, infoModalContent, notesTimer,
                        reloadPending, faults, ledger >>
        /\ UNCHANGED << bin_status_counts, mixedCell, daily_bin_totals, our_bins,
                        daily_rollover_log, variable_conflict, appVars, stockVars,
                        stockUpdates, retry, authEvent >>

\* line 755 answers: the party row is stored, or the call returns at line 756
PartyInserted(i, fail) ==
    LET m == movements[i]
        pid == FreshPartyId(bin_parties)
    IN  /\ i \in 1..Len(movements)
        /\ m.stage = "party"
        /\ Fault(fail)
        /\ IF fail = "error"
           THEN /\ movements' = WithoutMovement(i)
                /\ UNCHANGED bin_parties
           ELSE /\ pid # 0 /\ Len(bin_parties) < MaxParties
                /\ bin_parties' = Append(bin_parties,
                                         [id |-> pid, name |-> m.details.partyName])
                /\ movements' = [movements EXCEPT ![i].pid = pid, ![i].stage = "read"]
        /\ UNCHANGED << bin_balances, bin_history_log, binStockData,
                        confirmationRequest, infoModalContent, notesTimer,
                        reloadPending, ledger >>
        /\ UNCHANGED << bin_status_counts, mixedCell, daily_bin_totals, our_bins,
                        daily_rollover_log, variable_conflict, appVars, stockVars,
                        stockUpdates, retry, authEvent >>

\* lines 760-767: the balance read answers
BalanceRead(i, fail) ==
    LET m == movements[i]
    IN  /\ i \in 1..Len(movements)
        /\ m.stage = "read"
        /\ Fault(fail)
        /\ movements' =
               IF fail = "error" THEN WithoutMovement(i)
               ELSE [movements EXCEPT
                        ![i].currentBalance = BalanceOf(bin_balances, m.pid,
                                                        m.details.binId),
                        ![i].stage = "upsert"]
        /\ UNCHANGED << bin_parties, bin_balances, bin_history_log, binStockData,
                        confirmationRequest, infoModalContent, notesTimer,
                        reloadPending, ledger >>
        /\ UNCHANGED << bin_status_counts, mixedCell, daily_bin_totals, our_bins,
                        daily_rollover_log, variable_conflict, appVars, stockVars,
                        stockUpdates, retry, authEvent >>

\* lines 774-775: the upsert answers; it is refused when the party row is gone
BalanceUpserted(i, fail) ==
    LET m == movements[i]
        stored == \E p \in Range(bin_parties) : p.id = m.pid
    IN  /\ i \in 1..Len(movements)
        /\ m.stage = "upsert"
        /\ Fault(fail)
        /\ BalanceToWrite(m) \in (0 - MaxBalance)..MaxBalance
        /\ IF fail = "error" \/ ~stored
           THEN /\ movements' = WithoutMovement(i)
                /\ UNCHANGED bin_balances
           ELSE /\ bin_balances' = UpsertBalance(bin_balances, m.pid, m.details.binId,
                                                 BalanceToWrite(m))
                /\ movements' = [movements EXCEPT ![i].stage = "log"]
        /\ ledger' = Taint(ledger, m.details.partyName, m.details.binId)
        /\ UNCHANGED << bin_parties, bin_history_log, binStockData,
                        confirmationRequest, infoModalContent, notesTimer,
                        reloadPending >>
        /\ UNCHANGED << bin_status_counts, mixedCell, daily_bin_totals, our_bins,
                        daily_rollover_log, variable_conflict, appVars, stockVars,
                        stockUpdates, retry, authEvent >>

\* lines 777-786: the audit insert answers; its error is logged only
LogInserted(i, fail) ==
    LET m == movements[i]
    IN  /\ i \in 1..Len(movements)
        /\ m.stage = "log"
        /\ Fault(fail)
        /\ Len(bin_history_log) < MaxLog
        /\ bin_history_log' =
               IF fail = "error" THEN bin_history_log
               ELSE Append(bin_history_log,
                           MovementEntry(FreshLogId(bin_history_log), m.data, m.details))
        /\ movements' = [movements EXCEPT ![i].stage = "fetch"]
        /\ UNCHANGED << bin_parties, bin_balances, binStockData,
                        confirmationRequest, infoModalContent, notesTimer,
                        reloadPending, ledger >>
        /\ UNCHANGED << bin_status_counts, mixedCell, daily_bin_totals, our_bins,
                        daily_rollover_log, variable_conflict, appVars, stockVars,
                        stockUpdates, retry, authEvent >>

\* line 788: fetchBinData answers and the call ends
MovementReloaded(i, fail) ==
    /\ i \in 1..Len(movements)
    /\ movements[i].stage = "fetch"
    /\ Fault(fail)
    /\ binStockData' = FetchBinData(bin_parties, bin_balances, bin_history_log,
                                    fail = "error")
    /\ movements' = WithoutMovement(i)
    /\ UNCHANGED << bin_parties, bin_balances, bin_history_log,
                    confirmationRequest, infoModalContent, notesTimer,
                    reloadPending, ledger >>
    /\ UNCHANGED << bin_status_counts, mixedCell, daily_bin_totals, our_bins,
                    daily_rollover_log, variable_conflict, appVars, stockVars,
                    stockUpdates, retry, authEvent >>

\* Ziyard holds 1 ALG of ours; the audit entry of that movement failed to be
\* written (line 786)
RaceParties == << [id |-> 1, name |-> "Ziyard"] >>
RaceBalances == UpsertBalance(EmptyBalances, 1, "b1", 1)

\* a loaded bin page on stored parties and balances whose audit entries
\* failed to be written
SeededInit(parties, bal) ==
    /\ bin_parties = parties
    /\ bin_balances = bal
    /\ bin_history_log = <<>>
    /\ bin_status_counts = NoStatusRows
    /\ binStockData = FetchBinDataFrom(NoStatusRows, parties, bal, <<>>, FALSE)
    /\ mixedCell = NoCell
    /\ confirmationRequest = NoRequest
    /\ infoModalContent = ""
    /\ notesTimer = NoTimer
    /\ reloadPending = FALSE
    /\ faults = 0
    /\ ledger = Taint(CleanLedger, "Ziyard", "b1")
    /\ RolloverInitWith(<<>>, NoOwnedBins, "error")
    /\ NoneInFlight
    /\ StockInit
    /\ AppSignedIn

RaceInit == SeededInit(RaceParties, RaceBalances)

\* the movement form, its dialog and the calls in flight
RaceNext ==
    \/ \E t \in {"sent", "received"} : HandleLogMovement(t, 1, "b1", "Ziyard")
    \/ CancelRequest
    \/ BeginMovement
    \/ \E i \in 1..MaxInFlight, f \in StepFaults : PartyInserted(i, f)
    \/ \E i \in 1..MaxInFlight, f \in StepFaults : BalanceRead(i, f)
    \/ \E i \in 1..MaxInFlight, f \in StepFaults : BalanceUpserted(i, f)
    \/ \E i \in 1..MaxInFlight, f \in StepFaults : LogInserted(i, f)
    \/ \E i \in 1..MaxInFlight, f \in StepFaults : MovementReloaded(i, f)

RaceSpec == RaceInit /\ [][RaceNext]_vars

(* ------------------- handleDirectEdit on both lists ------------------- *)
\* Ziyard holds 1 ALG of ours and we hold 1 Chep Plastic of theirs; Acme holds
\* 1 ALG of ours
BothListsParties == << [id |-> 1, name |-> "Ziyard"], [id |-> 2, name |-> "Acme"] >>
BothListsBalances ==
    UpsertBalance(UpsertBalance(UpsertBalance(EmptyBalances, 1, "b1", 1),
                                1, "b2", 0 - 1), 2, "b1", 1)

BothListsInit == SeededInit(BothListsParties, BothListsBalances)

\* the cells of the party tables and the edit dialog
BothListsNext ==
    \/ \E p \in PartyIds, b \in BinIds, v \in EditValues : HandlePartyBinChange(p, b, v)
    \/ \E f \in EditFaults : ConfirmEdit(f)
    \/ CancelRequest

BothListsSpec == BothListsInit /\ [][BothListsNext]_vars

(* ----------------------------- runWithRetry ---------------------------- *)
\* the defaults of the parameters attempts and baseDelay
attempts == 3
baseDelay == 300

\* error messages, as sequences of characters
Timeout == << "t", "i", "m", "e", "o", "u", "t" >>
Invalid == << "i", "n", "v", "a", "l", "i", "d" >>
Unauthorized == << "u", "n", "a", "u", "t", "h", "o", "r", "i", "z", "e", "d" >>
Forbidden == << "f", "o", "r", "b", "i", "d", "d", "e", "n" >>
NotFound == << "N", "o", "t", " ", "F", "o", "u", "n", "d" >>
Notfound == << "n", "o", "t", "f", "o", "u", "n", "d" >>

\* what one call of fn gives: a response without error, a response with an
\* error, or an exception
FnOutcomes ==
    {[kind |-> "ok", data |-> 1]}
    \cup {[kind |-> "error", message |-> m] :
              m \in {Timeout, Invalid, Unauthorized, Forbidden, NotFound, Notfound}}
    \cup {[kind |-> "throws", message |-> Invalid]}

\* pat occurs in s
Contains(s, pat) ==
    \E i \in 1..(Len(s) - Len(pat) + 1) : SubSeq(s, i, i + Len(pat) - 1) = pat

NoRetryWords ==
    {Invalid, Unauthorized, Forbidden, << "n", "o", "t", " ", "f", "o", "u", "n", "d" >>}

\* the pattern of line 126 without its i flag
NoRetryPatternCaseSensitive(msg) == \E w \in NoRetryWords : Contains(msg, w)

\* line 126: /invalid|unauthorized|forbidden|not found/i.test(msg)
NoRetryPattern(msg) == \E w \in NoRetryWords : Contains(LowerChars(msg), w)

\* line 133
ErrorResult(err) == [data |-> Null, error |-> err]

\* lines 118-126: fn is called and its answer looked at, up to the return, the
\* break or the await of the backoff
RetryAttempt ==
    LET res == retry.responses[retry.calls + 1]
    IN  /\ retry.pc = "attempt"
        /\ retry' =
               IF res.kind = "ok"
               THEN [retry EXCEPT !.calls = @ + 1, !.pc = "returned",
                                  !.result = NotNull([data |-> NotNull(res.data),
                                                      error |-> Null])]
               ELSE IF res.kind = "error" /\ NoRetryPattern(res.message)
               THEN [retry EXCEPT !.calls = @ + 1, !.pc = "returned",
                                  !.lastErr = NotNull(res.message),
                                  !.result = NotNull(ErrorResult(NotNull(res.message)))]
               ELSE [retry EXCEPT !.calls = @ + 1, !.pc = "backoff",
                                  !.lastErr = NotNull(res.message)]
        /\ UNCHANGED << movements, stockUpdates, authEvent >>
        /\ UNCHANGED << pageVars, stockVars, appVars >>

\* line 131 and the loop's test: the backoff timer fires
BackoffElapses ==
    /\ retry.pc = "backoff"
    /\ retry' =
           IF retry.i + 1 < attempts
           THEN [retry EXCEPT !.delays = Append(@, baseDelay * 2 ^ retry.i),
                              !.i = @ + 1, !.pc = "attempt"]
           ELSE [retry EXCEPT !.delays = Append(@, baseDelay * 2 ^ retry.i),
                              !.i = @ + 1, !.pc = "returned",
                              !.result = NotNull(ErrorResult(retry.lastErr))]
    /\ UNCHANGED << movements, stockUpdates, authEvent >>
    /\ UNCHANGED << pageVars, stockVars, appVars >>

\* runWithRetry(fn) is called; fn will answer with these outcomes in turn
RetryInit ==
    /\ BinInitWith(NoStatusRows)
    /\ RolloverInitWith(<<>>, NoOwnedBins, "error")
    /\ StockInit
    /\ AppSignedIn
    /\ movements = <<>>
    /\ stockUpdates = <<>>
    /\ authEvent = "none"
    /\ \E r1 \in FnOutcomes, r2 \in FnOutcomes, r3 \in FnOutcomes :
           retry = [responses |-> << r1, r2, r3 >>, i |-> 0, calls |-> 0,
                    delays |-> <<>>, lastErr |-> Null, result |-> Null,
                    pc |-> "attempt"]

RetryNext == RetryAttempt \/ BackoffElapses

RetrySpec == RetryInit /\ [][RetryNext]_vars

(* -------------------- handleStockUpdate, await by await ---------------- *)
WithoutStockUpdate(k) ==
    SubSeq(stockUpdates, 1, k - 1) \o SubSeq(stockUpdates, k + 1, Len(stockUpdates))

\* lines 318-330: up to the await of the update; the call keeps the list of
\* its render as originalStockItems
BeginStockUpdate(itemId, field, value) ==
    LET i == FindIndex(stockItems, LAMBDA x : x.id = itemId)
    IN  /\ Idle
        /\ i # 0
        /\ FieldOf(stockItems[i], field) # value
        /\ Len(stockUpdates) < MaxInFlight
        /\ stockItems' = SetField(stockItems, itemId, field, value)
        /\ stockUpdates' =
               Append(stockUpdates,
                      [itemId |-> itemId, field |-> field, value |-> value,
                       item_name |-> stockItems[i].name,
                       originalStockItems |-> stockItems, pc |-> "update"])
        /\ lastOp' = [op |-> "stockUpdate"]
        /\ UNCHANGED << stock_items, suppliersTable, credit_transactions,
                        activity_log, suppliers, modal, priceConfirmation >>
        /\ UNCHANGED << pageVars, appVars, movements, retry, authEvent >>

\* lines 332-337: the update is answered
StockUpdateAnswered(k, fail) ==
    LET u == stockUpdates[k]
    IN  /\ k \in 1..Len(stockUpdates)
        /\ u.pc = "update"
        /\ Fault(fail)
        /\ IF fail = "error"
           THEN /\ stockItems' = u.originalStockItems
                /\ stockUpdates' = WithoutStockUpdate(k)
                /\ UNCHANGED stock_items
           ELSE /\ stock_items' = SetField(stock_items, u.itemId, u.field, u.value)
                /\ stockUpdates' = [stockUpdates EXCEPT ![k].pc = "log"]
                /\ UNCHANGED stockItems
        /\ UNCHANGED << suppliersTable, credit_transactions, activity_log, suppliers,
                        modal, priceConfirmation, lastOp >>
        /\ UNCHANGED << bin_parties, bin_balances, bin_history_log, binStockData,
                        notesTimer, reloadPending, ledger, bin_status_counts,
                        mixedCell, daily_bin_totals, our_bins, daily_rollover_log,
                        variable_conflict, confirmationRequest, infoModalContent >>
        /\ UNCHANGED << appVars, movements, retry, authEvent >>

\* lines 348-361: the activity entry is inserted, or its failure logged
StockUpdateLogged(k, fail) ==
    LET u == stockUpdates[k]
    IN  /\ k \in 1..Len(stockUpdates)
        /\ u.pc = "log"
        /\ Fault(fail)
        /\ Len(activity_log) < MaxDayLog
        /\ activity_log' =
               IF fail = "error" THEN activity_log
               ELSE Append(activity_log,
                           [item_name |-> u.item_name,
                            change |-> << "Set", u.field, u.value >>])
        /\ stockUpdates' = WithoutStockUpdate(k)
        /\ UNCHANGED << stock_items, stockItems, suppliersTable, credit_transactions,
                        suppliers, modal, priceConfirmation, lastOp >>
        /\ UNCHANGED << bin_parties, bin_balances, bin_history_log, binStockData,
                        notesTimer, reloadPending, ledger, bin_status_counts,
                        mixedCell, daily_bin_totals, our_bins, daily_rollover_log,
                        variable_conflict, confirmationRequest, infoModalContent >>
        /\ UNCHANGED << appVars, movements, retry, authEvent >>

\* the cells of one item, edited while earlier edits await the store; the
\* item is added before any cell is edited
OverlapNext ==
    \/ \E f \in {"none", "item"} :
           stockUpdates = <<>> /\
           SubmitAddItem([name |-> "Widget", quantity |-> 2, price |-> 2000,
                          transactionType |-> "cash", supplierName |-> NoSupplier], f)
    \/ \E field \in {"packed", "lost"}, v \in 0..1 : BeginStockUpdate(1, field, v)
    \/ \E k \in 1..MaxInFlight, f \in StepFaults : StockUpdateAnswered(k, f)
    \/ \E k \in 1..MaxInFlight, f \in StepFaults : StockUpdateLogged(k, f)

OverlapSpec == Init /\ [][OverlapNext]_vars

(* ------------------- handleAICommand, the UPDATE branch ---------------- *)
\* the columns of stock_items an edit can name
StockColumns == {"packed", "lost", "added_today", "opening_stock"}

\* itemToUpdate[field] of line 895: undefined for a key the item does not have
ItemField(item, key) ==
    IF key \in StockColumns THEN NotNull(FieldOf(item, key)) ELSE Null

\* one handleStockUpdate(itemToUpdate.id, field, itemToUpdate[field] + value) of
\* the loop, on the item and the list of the render that submitted the
\* command. For a key the item does not have the sum is NaN, which is never
\* === undefined, and the update names a column the table does not have: the
\* store answers with an error and the list is reverted (line 335).
UpdateStep(st, item, original, u, fail) ==
    LET old == ItemField(item, u.key)
    IN  IF old = Null
        THEN [st EXCEPT !.local = original]
        ELSE IF ValueOf(old) + u.value = ValueOf(old)
        THEN st
        ELSE IF fail = "update"
        THEN [st EXCEPT !.local = original]
        ELSE [table |-> SetField(st.table, item.id, u.key, ValueOf(old) + u.value),
              local |-> SetField(st.local, item.id, u.key, ValueOf(old) + u.value),
              log |-> Append(st.log,
                             [item_name |-> item.name,
                              change |-> << "Set", u.key, ValueOf(old) + u.value >>])]

\* lines 891-897: for (const key in updates)
RECURSIVE ApplyUpdates(_, _, _, _, _)
ApplyUpdates(st, item, original, updates, fail) ==
    IF updates = <<>> THEN st
    ELSE ApplyUpdates(UpdateStep(st, item, original, Head(updates), fail),
                      item, original, Tail(updates), fail)

\* lines 794-914 for an answer whose action is UPDATE; with fail = "update"
\* the store refuses the updates of this command
HandleAIUpdateCommand(response, fail) ==
    LET i == FindItem(stockItems, response.name)
        end == ApplyUpdates([table |-> stock_items, local |-> stockItems,
                             log |-> activity_log],
                            stockItems[i], stockItems, response.updates, fail)
    IN  /\ Idle
        /\ response.action = "UPDATE"
        /\ Fault(fail)
        /\ fail # "none" => i # 0
        /\ Len(activity_log) + Len(response.updates) <= MaxDayLog
        /\ IF i = 0
           THEN UNCHANGED << stock_items, stockItems, activity_log >>
           ELSE /\ stock_items' = end.table
                /\ stockItems' = end.local
                /\ activity_log' = end.log
        /\ lastOp' = [op |-> "aiCommand", response |-> response]
        /\ UNCHANGED << suppliersTable, credit_transactions, suppliers, modal,
                        priceConfirmation >>
        /\ UNCHANGED << binVars, confirmationRequest, infoModalContent >>

\* answers of the language model to update commands: the parameters the
\* prompt names, alone and together, for a listed item and for an unlisted one
UpdateResponses ==
    {[action |-> "UPDATE", name |-> n, updates |-> u] :
         n \in {"widget", "Gadget"},
         u \in {<< [key |-> "packed", value |-> 1] >>,
                << [key |-> "lost", value |-> 1] >>,
                << [key |-> "added", value |-> 1] >>,
                << [key |-> "packed", value |-> 1], [key |-> "lost", value |-> 1] >>,
                << [key |-> "packed", value |-> 0] >>}}

\* the command bar of the stock page, next to the Add Stock form
UpdateNext ==
    \/ \E f \in {"none", "item"} :
           SubmitAddItem([name |-> "Widget", quantity |-> 2, price |-> 2000,
                          transactionType |-> "cash", supplierName |-> NoSupplier], f)
    \/ \E r \in UpdateResponses, f \in {"none", "update"} : HandleAIUpdateCommand(r, f)

UpdateSpec == Init /\ [][UpdateNext]_vars

(* ------------------------------- claims -------------------------------- *)
\* the stored balance of a party name for a bin: the sum over the party rows
\* that bear the name, ignoring case
BalanceByName(parties, bal, name, bid) ==
    LET ids == {p.id : p \in {x \in Range(parties) : ToLowerCase(x.name) = name}}
    IN  SumSet([i \in ids |-> BalanceOf(bal, i, bid)], ids)

\* C1: for a (party, bin) that had no balance row and on which only error-free
\* movements were recorded since, the stored balance is the sum of +quantity
\* over the 'sent' and -quantity over the 'received' and 'returned' movements,
\* whatever their order
C1_BalanceIsSignedSum ==
    \A k \in DOMAIN ledger :
        ledger[k].clean =>
            BalanceByName(bin_parties, bin_balances, k[1], k[2]) = ledger[k].sum

\* C1 witness: sent 2 then returned 1 on one pair leaves the balance 1
C1_SentThenReturned ==
    /\ Len(bin_history_log) = 2
    /\ bin_history_log[1].details.movementType = "sent"
    /\ bin_history_log[1].details.quantity = 2
    /\ bin_history_log[2].details.movementType = "returned"
    /\ bin_history_log[2].details.quantity = 1
    /\ bin_history_log[1].details.binName = "ALG"
    /\ bin_history_log[2].details.binName = "ALG"
    /\ ledger[<< "ziyard", "b1" >>] = [clean |-> TRUE, sum |-> 1]
    /\ BalanceByName(bin_parties, bin_balances, "ziyard", "b1") = 1

\* the words of the three command forms: send .. to, receive .. from, return .. from
IsMovementCommand(c) ==
    /\ MovementMatch(c).matched
    /\ FindBinByName(binStockData, MovementMatch(c).binName) # ""
    /\ c[Len(c) - 1] = (IF ToLowerCase(c[1]) = "send" THEN "to" ELSE "from")

CommandDelta(c) ==
    IF ToLowerCase(c[1]) = "send" THEN ParseInt(c[2]) ELSE 0 - ParseInt(c[2])

\* C2: a bin command send N <bin> to <party>, receive N <bin> from <party> or
\* return N <bin> from <party> that names an existing bin type and runs without
\* a store error changes the stored balance of (party, bin) by +N for send and
\* by -N for receive and return
C2_CommandAppliesDelta ==
    [][\A c \in BinCommands :
          (IsMovementCommand(c) /\ HandleBinAICommand(c, "none")) =>
              BalanceByName(bin_parties', bin_balances',
                            ToLowerCase(MovementMatch(c).partyName),
                            FindBinByName(binStockData, MovementMatch(c).binName))
              = BalanceByName(bin_parties, bin_balances,
                              ToLowerCase(MovementMatch(c).partyName),
                              FindBinByName(binStockData, MovementMatch(c).binName))
                + CommandDelta(c)]_vars

\* C3: declining the price-mismatch dialog ("No, Keep Old Price") completes the
\* addition: the dialog closes, the stored price is unchanged and the item's
\* added_today has grown by the added quantity
C3_DecliningCompletesAddition ==
    [][KeepOldPrice("none") =>
          LET d == priceConfirmation.newItemData
              e == FindItem(stock_items, d.name)
          IN  /\ modal' = "none"
              /\ stock_items'[e].price = stock_items[e].price
              /\ stock_items'[e].added_today = stock_items[e].added_today + d.quantity]_vars

\* C4: in the bin state a reload has produced, a party is in owedToUs iff one of
\* its stored balances is positive and in weOwe iff one is negative, and a
\* (party, bin) with balance 0 or no balance is listed for that bin in neither
C4_ListsMirrorBalances ==
    \A p \in Range(bin_parties) :
        /\ (\E r \in Range(binStockData.owedToUs) : r.id = p.id)
               <=> (\E b \in BinIds : BalanceOf(bin_balances, p.id, b) > 0)
        /\ (\E r \in Range(binStockData.weOwe) : r.id = p.id)
               <=> (\E b \in BinIds : BalanceOf(bin_balances, p.id, b) < 0)
        /\ \A b \in BinIds :
               BalanceOf(bin_balances, p.id, b) = 0 =>
                   \A r \in PartyRows(binStockData) : r.id = p.id => b \notin DOMAIN r.bins

\* C4 holds of every bin state that a reload whose reads all succeeded produced
ListsMirrorBalancesWhenLoaded ==
    binStockData.binTypes # <<>> => C4_ListsMirrorBalances

\* C5: a confirmed Direct Edit of a party shown in weOwe to a value X > 0 whose
\* upsert and reload succeed stores the balance -X, and the reload shows X for
\* that (party, bin) in weOwe
C5_WeOweEditRoundTrip ==
    [][\A f \in {"none", "log"} :
          LET r == confirmationRequest
          IN  (/\ r.kind = "edit"
               /\ r.newValue > 0
               /\ \E p \in Range(r.data.weOwe) : p.id = r.partyId
               /\ ConfirmEdit(f))
              => /\ << r.partyId, r.binId >> \in DOMAIN bin_balances'
                 /\ bin_balances'[<< r.partyId, r.binId >>] = 0 - r.newValue
                 /\ \E p \in Range(binStockData'.weOwe) :
                        /\ p.id = r.partyId
                        /\ r.binId \in DOMAIN p.bins
                        /\ p.bins[r.binId] = r.newValue]_vars

\* C5 witness: a weOwe party that showed another value was edited to 2; the
\* edit is logged, -2 is stored and weOwe shows 2
C5_EditedWeOweParty ==
    LET r == confirmationRequest
    IN  /\ r.kind = "edit"
        /\ r.newValue = 2
        /\ \E p \in Range(r.data.weOwe) :
               p.id = r.partyId /\ r.binId \in DOMAIN p.bins /\ p.bins[r.binId] = 1
        /\ BalanceOf(bin_balances, r.partyId, r.binId) = 0 - 2
        /\ \E e \in Range(bin_history_log) : e.type = "edit"
        /\ \E p \in Range(binStockData.weOwe) :
               p.id = r.partyId /\ r.binId \in DOMAIN p.bins /\ p.bins[r.binId] = 2

\* C6: a movement recorded without a store error for a name that equals,
\* ignoring case, the name of a stored party inserts no bin_parties row
C6_MovementReusesStoredParty ==
    [][(/\ faults = 0
        /\ confirmationRequest.kind = "movement"
        /\ \E p \in Range(bin_parties) :
               ToLowerCase(p.name) = ToLowerCase(confirmationRequest.details.partyName)
        /\ ConfirmMovement("none"))
       => bin_parties' = bin_parties]_vars

\* the total_value of the credit transactions recorded for a supplier
CreditTotal(transactions, supplierId) ==
    LET rows == {i \in 1..Len(transactions) : transactions[i].supplier_id = supplierId}
    IN  SumSet([i \in rows |-> transactions[i].total_value], rows)

\* C7: while no store call has failed, every supplier's stored balance is the
\* sum of total_value over the credit transactions recorded for it
C7_BalanceIsCreditTotal ==
    faults = 0 =>
        \A x \in Range(suppliersTable) :
            x.balance = CreditTotal(credit_transactions, x.id)

\* C8: while no store call has failed, bin_history_log holds at most one entry
\* of type 'note'
C8_AtMostOneNote ==
    faults = 0 =>
        Cardinality({i \in 1..Len(bin_history_log) : bin_history_log[i].type = "note"}) <= 1

\* the entries of type 'edit' of the audit log
EditEntries(log) == SelectSeq(log, LAMBDA e : e.type = "edit")

\* C9: a direct edit writes bin_balances, and its audit entry, only in the step
\* that confirms its request: never in the step that opens the request, never
\* while the request waits, and never in the step that cancels it
C9_EditWritesOnlyOnConfirm ==
    [][(/\ confirmationRequest.kind # "movement"
        /\ \/ bin_balances' # bin_balances
           \/ EditEntries(bin_history_log') # EditEntries(bin_history_log))
       => /\ confirmationRequest.kind = "edit"
          /\ confirmationRequest' = confirmationRequest
          /\ \A k \in DOMAIN bin_balances' :
                 (k \notin DOMAIN bin_balances \/ bin_balances'[k] # bin_balances[k])
                     => k = << confirmationRequest.partyId, confirmationRequest.binId >>]_vars

\* C9 witness: an edit request shows old and new value and waits; the balance
\* stored for its (party, bin) is still the old one and no edit is logged
C9_EditAwaitsConfirmation ==
    LET r == confirmationRequest
    IN  /\ r.kind = "edit"
        /\ r.data = binStockData
        /\ OldValue(r.data, r.partyId, r.binId) = 1
        /\ r.newValue = 2
        /\ BalanceOf(bin_balances, r.partyId, r.binId) = 1
        /\ EditEntries(bin_history_log) = <<>>

\* the name has no exact match ignoring case but is within distance 3 of a supplier
NearMiss(name, sups) ==
    /\ name # NoSupplier
    /\ \A x \in Range(sups) : LowerChars(x.name) # LowerChars(name)
    /\ \E x \in Range(sups) : levenshteinDistance(name, x.name) <= 3

StockTables == << stock_items, suppliersTable, credit_transactions >>

\* C10: an interpreted ADD whose supplier is a near miss opens the supplier
\* request and writes nothing; nothing is written while the request waits; the
\* confirmation inserts no supplier row, records any transaction under the
\* suggested supplier, and records one when no store call fails and no price
\* dialog intervenes
C10_NearMissWaitsForConfirmation ==
    [][/\ (/\ Idle
           /\ lastOp'.op = "aiCommand"
           /\ lastOp'.response.action = "ADD"
           /\ NearMiss(lastOp'.response.supplier, suppliers))
              => (confirmationRequest'.kind = "supplier" /\ UNCHANGED StockTables)
       /\ (confirmationRequest.kind = "supplier" /\ confirmationRequest'.kind = "supplier")
              => UNCHANGED StockTables
       /\ \A f \in AddFaults :
              (confirmationRequest.kind = "supplier" /\ ConfirmSupplier(f))
              => LET suggested == CHOOSE x \in Range(suppliersTable) :
                                      x.name = confirmationRequest.suggestion
                     n == Len(credit_transactions)
                 IN  /\ Len(suppliersTable') = Len(suppliersTable)
                     /\ \A i \in (n + 1)..Len(credit_transactions') :
                            credit_transactions'[i].supplier_id = suggested.id
                     /\ (f = "none" /\ modal' = "none")
                            => Len(credit_transactions') = n + 1]_vars

\* C10 witness: the request for a near miss of "Deons" was confirmed; the
\* transaction is recorded under Deons, the only supplier row
C10_ConfirmedSuggestion ==
    /\ lastOp.op = "confirmSupplier"
    /\ modal = "none"
    /\ Len(suppliersTable) = 1
    /\ suppliersTable[1].name = Deons
    /\ Len(credit_transactions) = 2
    /\ credit_transactions[2].supplier_id = suppliersTable[1].id
    /\ credit_transactions[2].stock_item_name = "widget"

\* C11: no movement with quantity <= 0 reaches handleBinMovement, so every
\* movement entry of the audit log carries a quantity greater than 0
C11_MovementQuantityPositive ==
    \A i \in 1..Len(bin_history_log) :
        bin_history_log[i].type = "movement"
            => bin_history_log[i].details.quantity > 0

\* a bin type of the displayed state bears this name, ignoring case
BinTypeExists(binName) ==
    \E b \in Range(binStockData.binTypes) : ToLowerCase(b.name) = ToLowerCase(binName)

\* the command does not match the movement pattern, or names no bin type
CommandRejected(c) ==
    \/ ~MovementMatch(c).matched
    \/ MovementMatch(c).matched /\ ~BinTypeExists(MovementMatch(c).binName)

\* C12: a command that does not match the movement pattern, or that names a
\* bin matching no bin type, sets an explanatory message and writes nothing
\* to bin_parties, bin_balances or bin_history_log
C12_RejectedCommandWritesNothing ==
    [][\A c \in BinCommands :
          (CommandRejected(c) /\ \E f \in MovementFaults : HandleBinAICommand(c, f))
              => /\ infoModalContent' =
                        (IF MovementMatch(c).matched
                         THEN NoBinMessage(MovementMatch(c).binName)
                         ELSE NotUnderstoodMessage)
                 /\ UNCHANGED << bin_parties, bin_balances, bin_history_log >>]_vars

\* an unknown bin name was reported after a movement had been recorded
C12_UnknownBinReported ==
    /\ infoModalContent = NoBinMessage("crate")
    /\ Len(bin_history_log) > 0

\* C13: a successful New Day sets, for every item, opening_stock to its
\* remaining before the rollover and added_today, packed and lost to 0, in the
\* store and on screen, so remaining is unchanged; when the batch upsert fails
\* no item changes, stored or local
C13_NewDayCarriesRemaining ==
    [][(modal = "newDay" /\ lastOp'.op = "newDay")
          => IF lastOp'.fail = "upsert"
             THEN UNCHANGED << stock_items, stockItems >>
             ELSE /\ Len(stock_items') = Len(stock_items)
                  /\ Len(stockItems') = Len(stockItems)
                  /\ \A i \in 1..Len(stock_items) :
                        /\ stock_items'[i] = RolledOver(stock_items[i])
                        /\ Remaining(stock_items'[i]) = Remaining(stock_items[i])
                  /\ \A i \in 1..Len(stockItems) :
                        /\ stockItems'[i] = RolledOver(stockItems[i])
                        /\ Remaining(stockItems'[i]) = Remaining(stockItems[i])]_vars

\* a rollover has carried a remaining of 1 (2 added, 1 packed) into
\* opening_stock, next to an item it carried 2 for
C13_RolledOverTwoItems ==
    /\ lastOp.op = "newDay" /\ lastOp.fail = "none"
    /\ Len(stock_items) = 2
    /\ \E i \in 1..2 : stock_items[i].opening_stock = 1 /\ stock_items[i].packed = 0
    /\ \E i \in 1..2 : stockItems[i].opening_stock = 2 /\ stockItems[i].added_today = 0

\* the custom sub-types of the mixed parent shown in the cell
SubTypesOfCell ==
    {b \in Range(mixedCell.customBinTypes) :
        b.category = "mixedWood" /\ b.id # mixedCell.category}

\* the number the cell shows: its total, or its listed counts added up
ShownValue ==
    IF mixedCell.shown.kind = "total" THEN mixedCell.shown.total
    ELSE SumSet([r \in mixedCell.shown.rows |-> r.count], mixedCell.shown.rows)

\* C14: the value displayed for a mixed category is the sum of the counts of
\* its custom sub-types when one of them is nonzero, and the category's own
\* stored value otherwise
C14_MixedCellShowsSum ==
    mixedCell.rendered =>
        IF \E b \in SubTypesOfCell : mixedCell.bins[b.id] # 0
        THEN ShownValue = SumSet([b \in SubTypesOfCell |-> mixedCell.bins[b.id]],
                                 SubTypesOfCell)
        ELSE ShownValue = mixedCell.bins[mixedCell.category]

\* the rows of daily_bin_totals for a bin type and date
TotalsRows(totals, b, date) ==
    {i \in 1..Len(totals) : totals[i].bin_type_id = b /\ totals[i].date = date}

\* C15: a second rollover for the same date, with the balances, our_bins and
\* the previous day's totals as the first found them, stores for every bin
\* type the opening_total the first stored, in the one row of that date
C15_RolloverTwiceStoresSame ==
    [][(/\ lastOp.op = "rollover" /\ lastOp'.op = "rollover"
        /\ lastOp'.n = lastOp.n + 1
        /\ lastOp'.date = lastOp.date
        /\ lastOp'.read = lastOp.read)
          => \A b \in BinIds :
                /\ Cardinality(TotalsRows(daily_bin_totals, b, lastOp.date)) = 1
                /\ Cardinality(TotalsRows(daily_bin_totals', b, lastOp.date)) = 1
                /\ \A i \in TotalsRows(daily_bin_totals, b, lastOp.date),
                      j \in TotalsRows(daily_bin_totals', b, lastOp.date) :
                       daily_bin_totals'[j].opening_total
                           = daily_bin_totals[i].opening_total]_vars

\* C16: in every state a reload produced, each bin type's total is
\* full + inFridge + broken + dump with a missing count as 0, whatever a stored
\* row of status 'total' holds, and no edit issues Update Status Count for
\* the status 'total'
C16_TotalIsDerived ==
    /\ \A b \in BinIds :
           CountOr0(binStockData.statuses["total"], b)
               = CountOr0(binStockData.statuses["full"], b)
                 + CountOr0(binStockData.statuses["inFridge"], b)
                 + CountOr0(binStockData.statuses["broken"], b)
                 + CountOr0(binStockData.statuses["dump"], b)
    /\ lastOp.op = "updateStatusCount" => lastOp.statusKey # "total"

\* a reload after an edit shows total 1 for a bin type with a stored 'total'
\* row of 2
C16_StoredTotalOverridden ==
    /\ lastOp.op = "updateStatusCount"
    /\ <<"total", "b1">> \in DOMAIN bin_status_counts
    /\ bin_status_counts[<<"total", "b1">>] = 2
    /\ "b1" \in DOMAIN binStockData.statuses["full"]
    /\ binStockData.statuses["full"]["b1"] = 1
    /\ binStockData.statuses["total"]["b1"] = 1

\* C17: a response that is empty or no JSON drops the command: no stock,
\* supplier or log state changes, stored or local, and an error is shown to
\* the user
C17_UnparsedResponseDropsCommand ==
    [][(Idle /\ lastOp'.op = "aiCommand" /\ lastOp'.response.action = "")
          => /\ UNCHANGED << stock_items, suppliersTable, credit_transactions,
                             activity_log, stockItems, suppliers >>
             /\ infoModalContent' # ""]_vars

\* C18: on a build without the store URL or without the access key,
\* supabaseAvailable is false, and once the effect has run the app has left the
\* loading state with session = null and hasTeam = false and no auth listener
\* registered.
C18_MissingCredentialsDegrade ==
    (supabaseUrl = "" \/ supabaseAnonKey = "")
        => /\ ~supabaseAvailable
           /\ authInit # "notMounted"
                  => /\ loading = FALSE
                     /\ session = Null
                     /\ hasTeam = NotNull(FALSE)
                     /\ ~subscription

\* C19: loading eventually becomes false in every startup, and when the 5 s
\* timeout fires the app shows the signed-out view.
C19_LoadingEndsSignedOut ==
    /\ <>(loading = FALSE)
    /\ [][(initTimeout = "armed" /\ initTimeout' = "fired")
              => View' \in SignedOutViews]_vars

\* C20: an Add Stock submission of quantity q at price p under a name no stored
\* item has (in any case), whose insert succeeds, appends exactly one item with
\* opening_stock = 0, added_today = q, packed = 0, lost = 0 and price = p to
\* stock_items and to stockItems; its remaining is q and its stock value
\* q * p, and the items that existed are unchanged.
C20_NewItemCreated ==
    [][\A d \in DayItems :
          (FindItem(stock_items, d.name) = 0 /\ SubmitAddItem(d, "none"))
              => LET new == stock_items'[Len(stock_items')]
                 IN  /\ stock_items' = Append(stock_items, new)
                     /\ stockItems' = Append(stockItems, new)
                     /\ new.name = d.name
                     /\ new.opening_stock = 0
                     /\ new.added_today = d.quantity
                     /\ new.packed = 0
                     /\ new.lost = 0
                     /\ new.price = d.price
                     /\ Remaining(new) = d.quantity
                     /\ StockValue(new) = d.quantity * d.price]_vars

\* a second item has been added next to one of which 1 is packed
C20_AddedNextToPackedItem ==
    /\ lastOp.op = "addItem"
    /\ Len(stock_items) = 2
    /\ stockItems = stock_items
    /\ stock_items[1].added_today = 2 /\ stock_items[1].packed = 1
    /\ stock_items[2].added_today = 2 /\ stock_items[2].opening_stock = 0
    /\ Remaining(stock_items[2]) = 2
    /\ StockValue(stock_items[2]) = 4000

\* C21: when the reload that follows a stored new party fails on a read, the
\* bin state the application held before (binStockData) is left as it was.
C21_FailedReloadKeepsState ==
    [][\A n \in PartyNames :
          HandleAddParty(n, "fetch") => binStockData' = binStockData]_vars

\* C22: nothing excludes a second Record Movement while one is in flight, and
\* the upsert of each writes the balance it read changed by its own delta,
\* whatever another movement has stored for that (party, bin) in between.
C22_UpsertWritesFromOwnRead ==
    [][\A i \in 1..MaxInFlight :
          BalanceUpserted(i, "none")
              => LET m == movements[i]
                 IN  BalanceOf(bin_balances', m.pid, m.details.binId) =
                         NewBalance(m.currentBalance, m.details.type,
                                    m.details.quantity)]_vars

\* two movements "sent 1" to the party that held 1 have both ended without
\* error and both left their audit entry, and the stored balance is 2, not 3
C22_LostUpdate ==
    /\ movements = <<>>
    /\ faults = 0
    /\ Len(bin_parties) = 1
    /\ Len(bin_history_log) = 2
    /\ \A i \in 1..2 : /\ bin_history_log[i].type = "movement"
                       /\ bin_history_log[i].details.movementType = "sent"
                       /\ bin_history_log[i].details.quantity = 1
    /\ BalanceOf(bin_balances, 1, "b1") = 2
    /\ binStockData.owedToUs[1].bins["b1"] = 2

\* C23: a Record Movement whose party insert, balance read or balance upsert
\* fails ends there, with bin_history_log and the stored balances unchanged;
\* an audit entry is only written by a call whose upsert has succeeded.
C23_AbortBeforeAudit ==
    [][/\ \A i \in 1..MaxInFlight :
             (PartyInserted(i, "error") \/ BalanceRead(i, "error")
                  \/ BalanceUpserted(i, "error"))
                 => /\ UNCHANGED << bin_balances, bin_history_log >>
                    /\ Len(movements') = Len(movements) - 1
       /\ bin_history_log' # bin_history_log
              => \E i \in 1..Len(movements) :
                     /\ movements[i].stage = "log"
                     /\ <<movements[i].pid, movements[i].details.binId>>
                            \in DOMAIN bin_balances]_vars

\* a movement on the stored party has failed before its audit insert: the
\* request is still open, nothing is in flight, and balance and history are
\* as before
C23_AbortedMovement ==
    /\ faults = 1
    /\ movements = <<>>
    /\ confirmationRequest.kind = "movement"
    /\ bin_balances = RaceBalances
    /\ bin_history_log = <<>>
    /\ binStockData.owedToUs[1].bins["b1"] = 1

\* the value the party tables show for the balance of (party, bin): that of
\* the row whose list holds the bin, 0 when neither does
DisplayedValue(data, partyId, binId) ==
    LET rows == {r \in PartyRows(data) : r.id = partyId /\ binId \in DOMAIN r.bins}
    IN  IF rows = {} THEN 0 ELSE (CHOOSE r \in rows : TRUE).bins[binId]

\* C24: a confirmed Direct Edit whose upsert and audit insert succeed, made on
\* the state it was opened on, appends one entry of type 'edit' that names the
\* value displayed for that (party, bin) as the old value and the entered value
\* as the new one, also for a party listed in both owedToUs and weOwe.
C24_EditEntryNamesDisplayedValue ==
    [][\A f \in {"none", "fetch"} :
          LET r == confirmationRequest
          IN  (r.kind = "edit" /\ r.data = binStockData /\ ConfirmEdit(f))
                  => LET e == bin_history_log'[Len(bin_history_log')]
                     IN  /\ Len(bin_history_log') = Len(bin_history_log) + 1
                         /\ e.type = "edit"
                         /\ e.change =
                                "Manually changed " \o BinNameOf(r.data, r.binId)
                                \o " for " \o NameOf(bin_parties, r.partyId)
                                \o " from "
                                \o ToString(DisplayedValue(r.data, r.partyId, r.binId))
                                \o " to " \o ToString(r.newValue) \o "."]_vars

\* C25: a notes update whose write succeeds is followed by a full reload
\* (fetchBinData) and does not itself change the local bin state.
C25_NotesWriteReloads ==
    [][HandleUpdateNotes("none")
          => (reloadPending' /\ binStockData' = binStockData)]_vars

\* the messages that name a failure no retry will cure
PermanentMessages == {Invalid, Unauthorized, Forbidden, NotFound}

\* a failed call of fn that the helper retries
Retried(r) ==
    r.kind = "throws" \/ (r.kind = "error" /\ r.message \notin PermanentMessages)

\* C26: when runWithRetry has returned it has called fn at most 3 times and
\* every call but the last failed in a way that looks transient; it waited
\* 300, 600, ... ms after each such failure and not after a response naming a
\* permanent failure; it returns the first response without error, and else
\* the last error, which follows a permanent failure or the third attempt.
C26_RetryOnlyTransient ==
    retry.pc = "returned"
        => LET n == retry.calls
               rs == retry.responses
               waits == IF Retried(rs[n]) THEN n ELSE n - 1
           IN  /\ n \in 1..attempts
               /\ \A k \in 1..(n - 1) : Retried(rs[k])
               /\ retry.delays = [k \in 1..waits |-> baseDelay * 2 ^ (k - 1)]
               /\ rs[n].kind = "ok"
                      => retry.result = NotNull([data |-> NotNull(rs[n].data),
                                                 error |-> Null])
               /\ rs[n].kind # "ok"
                      => /\ retry.result = NotNull(ErrorResult(NotNull(rs[n].message)))
                         /\ n = attempts \/ ~Retried(rs[n])

\* the helper has returned 'Not Found' from its second call, after one wait of
\* 300 ms for a timeout
C26_StoppedOnNotFound ==
    /\ retry.pc = "returned"
    /\ retry.calls = 2
    /\ retry.responses[1] = [kind |-> "error", message |-> Timeout]
    /\ retry.responses[2] = [kind |-> "error", message |-> NotFound]
    /\ retry.delays = << 300 >>
    /\ retry.result = NotNull(ErrorResult(NotNull(NotFound)))

\* what an auth event may change besides the session and the record of it
AppButSession ==
    << supabaseUrl, supabaseAnonKey, loading, authView, hasTeam, initTimeout,
       authInit, subscription, teamChecks >>

\* C27: an auth event other than SIGNED_IN and SIGNED_OUT changes the session
\* only, a SIGNED_OUT sets hasTeam to false and starts no team check, and no
\* step but a SIGNED_IN event starts a team check of the listener.
C27_OnlySignInChecksTeam ==
    [][/\ \A ev \in AuthEvents :
              OnAuthStateChange(ev)
                  => /\ session' = ev.session
                     /\ ev.event \notin {"SIGNED_IN", "SIGNED_OUT"}
                            => UNCHANGED AppButSession
                     /\ ev.event = "SIGNED_OUT"
                            => hasTeam' = NotNull(FALSE) /\ UNCHANGED teamChecks
       /\ Len(teamChecks') > Len(teamChecks) => authEvent' = "SIGNED_IN"]_vars

\* a TOKEN_REFRESHED event has just been handled for a user with a team, and
\* no team check is pending
C27_TokenRefreshed ==
    /\ authEvent = "TOKEN_REFRESHED"
    /\ session # Null
    /\ hasTeam = NotNull(TRUE)
    /\ teamChecks = <<>>

\* C28: a Confirm on a movement request or on an edit request dismisses the
\* request, so that one request commits its mutation at most once.
C28_ConfirmDismissesRequest ==
    [][((\E f \in MovementFaults : ConfirmMovement(f))
            \/ (\E f \in EditFaults : ConfirmEdit(f)))
           => confirmationRequest' = NoRequest]_vars

\* the four editable quantities of every listed item are those of its stored row
LocalAgreesWithStore(items, table) ==
    \A i \in 1..Len(items) :
        \E j \in 1..Len(table) :
            /\ table[j].id = items[i].id
            /\ \A f \in {"packed", "lost", "added_today", "opening_stock"} :
                   FieldOf(items[i], f) = FieldOf(table[j], f)

\* C29: when a stock update fails at the store and no other update is still
\* awaiting its answer, the local list agrees with the store afterwards: the
\* failed field is back and updates that succeeded meanwhile are still shown.
C29_RevertKeepsOtherUpdates ==
    [][\A k \in 1..MaxInFlight :
           (/\ StockUpdateAnswered(k, "error")
            /\ \A u \in Range(stockUpdates') : u.pc # "update")
               => LocalAgreesWithStore(stockItems', stock_items')]_vars

\* the stored column a parameter of the prompt stands for
ParameterColumn(key) ==
    CASE key = "packed" -> "packed"
      [] key = "lost" -> "lost"
      [] key = "added" -> "added_today"

\* the sum of the amounts the updates give for a column
RECURSIVE AmountFor(_, _)
AmountFor(updates, column) ==
    IF updates = <<>> THEN 0
    ELSE (IF ParameterColumn(Head(updates).key) = column THEN Head(updates).value ELSE 0)
             + AmountFor(Tail(updates), column)

\* C30: an UPDATE answer naming a listed item, with the store accepting every
\* write, leaves each stored column of the item increased by the amount given
\* for it (packed, lost, and added for added_today) and changes nothing else
\* of the stored row.
C30_UpdateAddsToStoredFields ==
    [][\A r \in UpdateResponses :
           (HandleAIUpdateCommand(r, "none") /\ FindItem(stockItems, r.name) # 0)
               => LET id == stockItems[FindItem(stockItems, r.name)].id
                      j == FindIndex(stock_items, LAMBDA x : x.id = id)
                  IN  /\ Len(stock_items') = Len(stock_items)
                      /\ \A c \in StockColumns :
                             FieldOf(stock_items'[j], c)
                                 = FieldOf(stock_items[j], c) + AmountFor(r.updates, c)
                      /\ stock_items'[j].name = stock_items[j].name
                      /\ stock_items'[j].price = stock_items[j].price]_vars

====
